---------------------------- MODULE Spec2Model ----------------------------
(***************************************************************************)
(* Verification model of the odin-core governance and orchestration layer: *)
(* the static policy engine (odin-policy-engine), the orchestrator runtime *)
(* with its manifest enforcer and its external-process plugin runner       *)
(* (odin-core-runtime), the stagehand permission policy, the skill         *)
(* registries and the install gate (odin-governance) and the migration     *)
(* bundles (odin-migration).                                               *)
(*                                                                         *)
(* Rust strings are TLA+ strings; they are taken apart with Len and SubSeq *)
(* the way the code takes them apart with trim, strip_prefix and split.    *)
(***************************************************************************)
EXTENDS Integers, Sequences, FiniteSets, TLC

VARIABLES
    allowed,                          \* StaticPolicyEngine.allowed
    require_approval_for_destructive, \* StaticPolicyEngine.require_approval_for_destructive
    executor,                         \* the ActionExecutor the runtime was built with
    sink,                             \* records handed to AuditSink::record, in call order
    ingress,                          \* payloads handed to TaskIngress::write_task_payload
    call,                             \* the last runtime call: its inputs, effects and result
    stagehand,                        \* the StagehandPolicy under construction
    built_from,                       \* Some(envelope) the policy was built from, or None
    arg,                              \* input of the function under evaluation; the
                                      \* commands run so far; the child processes spawned
    ret,                              \* its result, NoRet before it is applied
    disk                              \* the directories and files the migration commands see

vars ==
    <<allowed, require_approval_for_destructive, executor, sink, ingress, call,
      stagehand, built_from, arg, ret, disk>>

\* Option<T>: None is the empty sequence, Some(v) the one-element sequence
None == <<>>
Some(v) == <<v>>
IsSome(o) == o # <<>>
Unwrap(o) == o[1]

NoRet == [pending |-> TRUE]
NoCall == [op |-> "none"]

(***************************************************************************)
(* Bounds of the model.                                                    *)
(***************************************************************************)
MaxSink == 1

(***************************************************************************)
(* String primitives of the Rust standard library, as the code uses them.  *)
(***************************************************************************)
CharAt(s, i) == SubSeq(s, i, i)

IsWhitespace(c) == c \in {" ", "\t", "\n", "\r"}

RECURSIVE TrimStart(_)
TrimStart(s) ==
    IF Len(s) = 0 THEN s
    ELSE IF IsWhitespace(CharAt(s, 1)) THEN TrimStart(SubSeq(s, 2, Len(s)))
    ELSE s

RECURSIVE TrimEnd(_)
TrimEnd(s) ==
    IF Len(s) = 0 THEN s
    ELSE IF IsWhitespace(CharAt(s, Len(s))) THEN TrimEnd(SubSeq(s, 1, Len(s) - 1))
    ELSE s

Trim(s) == TrimEnd(TrimStart(s))

StartsWith(s, p) == Len(s) >= Len(p) /\ SubSeq(s, 1, Len(p)) = p

EndsWith(s, p) == Len(s) >= Len(p) /\ SubSeq(s, Len(s) - Len(p) + 1, Len(s)) = p

\* str::strip_prefix: the rest after p, or None
StripPrefix(s, p) == IF StartsWith(s, p) THEN Some(SubSeq(s, Len(p) + 1, Len(s))) ELSE None

\* first index of a character of cs in s at or after i, 0 when there is none
RECURSIVE FindFrom(_, _, _)
FindFrom(s, cs, i) ==
    IF i > Len(s) THEN 0
    ELSE IF CharAt(s, i) \in cs THEN i
    ELSE FindFrom(s, cs, i + 1)

\* last index of a character of cs in s at or before i, 0 when there is none
RECURSIVE RFindFrom(_, _, _)
RFindFrom(s, cs, i) ==
    IF i < 1 THEN 0
    ELSE IF CharAt(s, i) \in cs THEN i
    ELSE RFindFrom(s, cs, i - 1)

\* s.split(cs).next(): the text before the first separator
SplitFirst(s, cs) ==
    LET i == FindFrom(s, cs, 1)
    IN  IF i = 0 THEN s ELSE SubSeq(s, 1, i - 1)

\* s.rsplit(c).next(): the text after the last separator
RSplitFirst(s, cs) ==
    LET i == RFindFrom(s, cs, Len(s))
    IN  IF i = 0 THEN s ELSE SubSeq(s, i + 1, Len(s))

\* s.split(cs) collected: every piece, empty pieces included
RECURSIVE Split(_, _)
Split(s, cs) ==
    LET i == FindFrom(s, cs, 1)
    IN  IF i = 0 THEN <<s>>
        ELSE <<SubSeq(s, 1, i - 1)>> \o Split(SubSeq(s, i + 1, Len(s)), cs)

\* s.split_whitespace() collected: the non-empty pieces between whitespace
SplitWhitespace(s) ==
    LET pieces == Split(s, {" ", "\t", "\n", "\r"})
    IN  SelectSeq(pieces, LAMBDA p : Len(p) > 0)

LowerChar(c) ==
    CASE c = "A" -> "a" [] c = "B" -> "b" [] c = "C" -> "c" [] c = "D" -> "d"
      [] c = "E" -> "e" [] c = "F" -> "f" [] c = "G" -> "g" [] c = "H" -> "h"
      [] c = "I" -> "i" [] c = "J" -> "j" [] c = "K" -> "k" [] c = "L" -> "l"
      [] c = "M" -> "m" [] c = "N" -> "n" [] c = "O" -> "o" [] c = "P" -> "p"
      [] c = "Q" -> "q" [] c = "R" -> "r" [] c = "S" -> "s" [] c = "T" -> "t"
      [] c = "U" -> "u" [] c = "V" -> "v" [] c = "W" -> "w" [] c = "X" -> "x"
      [] c = "Y" -> "y" [] c = "Z" -> "z" [] OTHER -> c

RECURSIVE ToAsciiLowercase(_)
ToAsciiLowercase(s) ==
    IF Len(s) = 0 THEN s
    ELSE IF Len(s) = 1 THEN LowerChar(CharAt(s, 1))
    ELSE ToAsciiLowercase(SubSeq(s, 1, Len(s) \div 2))
         \o ToAsciiLowercase(SubSeq(s, Len(s) \div 2 + 1, Len(s)))

\* the elements of a sequence
Range(q) == {q[i] : i \in 1..Len(q)}

(***************************************************************************)
(* odin-policy-engine: StaticPolicyEngine                                  *)
(***************************************************************************)
PolicyAllow(code) == [decision |-> "allow", reason_code |-> code]
PolicyDeny(code) == [decision |-> "deny", reason_code |-> code]
PolicyRequireApproval(code, tier) ==
    [decision |-> "require_approval", reason_code |-> code, tier |-> tier]
PolicyInvalidRequest == [error |-> "InvalidRequest"]

is_allowed(grants, plugin, project, capability) ==
    \/ <<plugin, project, capability>> \in grants
    \/ <<plugin, "*", capability>> \in grants

\* decide with the destructive-approval check placed before the grant check
decide_ApprovalBeforeGrant(grants, flag, request) ==
    LET cap == request.capability
    IN  IF Trim(cap.plugin) = "" \/ Trim(cap.capability) = ""
        THEN PolicyInvalidRequest
        ELSE IF request.risk_tier = "destructive" /\ flag
        THEN PolicyRequireApproval("destructive_requires_approval", "destructive")
        ELSE IF ~is_allowed(grants, cap.plugin, cap.project, cap.capability)
        THEN PolicyDeny("capability_not_granted")
        ELSE PolicyAllow("capability_granted")

decide(grants, flag, request) ==
    LET cap == request.capability
    IN  IF Trim(cap.plugin) = "" \/ Trim(cap.capability) = ""
        THEN PolicyInvalidRequest
        ELSE IF ~is_allowed(grants, cap.plugin, cap.project, cap.capability)
        THEN PolicyDeny("capability_not_granted")
        ELSE IF request.risk_tier = "destructive" /\ flag
        THEN PolicyRequireApproval("destructive_requires_approval", "destructive")
        ELSE PolicyAllow("capability_granted")

(***************************************************************************)
(* Inputs of the policy engine evaluation.                                 *)
(***************************************************************************)
RiskTier == {"safe", "sensitive", "destructive"}

GrantSets ==
    { {},
      {<<"example.safe-github", "demo", "repo.read">>},
      {<<"example.safe-github", "*", "repo.read">>},
      {<<"example.safe-github", "demo", "repo.read">>,
       <<"example.safe-github", "demo", "repo.delete">>,
       <<"stagehand", "*", "stagehand.observe_url">>} }

PolicyRequests ==
    { [request_id |-> "req-1", risk_tier |-> t, input |-> <<>>,
       capability |-> [plugin |-> p, project |-> j, capability |-> c,
                       scope |-> <<"project">>, reason |-> "r"]] :
        t \in RiskTier,
        p \in {"", " ", "example.safe-github", "stagehand"},
        j \in {"demo", "other", "*"},
        c \in {"", "\t ", "repo.read", "repo.delete"} }

IdleRuntime == executor = "DryRunExecutor" /\ sink = <<>> /\ ingress = <<>> /\ call = NoCall
IdleStagehand == stagehand = NoRet /\ built_from = None
IdleDisk == disk = NoRet

InitPolicy ==
    /\ allowed \in GrantSets
    /\ require_approval_for_destructive \in BOOLEAN
    /\ arg \in PolicyRequests
    /\ ret = NoRet
    /\ IdleRuntime
    /\ IdleStagehand
    /\ IdleDisk

Decide ==
    /\ ret = NoRet
    /\ ret' = decide(allowed, require_approval_for_destructive, arg)
    /\ UNCHANGED <<allowed, require_approval_for_destructive, executor, sink, ingress, call,
                   stagehand, built_from, arg, disk>>

NextPolicy == Decide

SpecPolicy == InitPolicy /\ [][NextPolicy]_vars

(***************************************************************************)
(* C2: decide returns an invalid-request error if plugin or capability is  *)
(* empty after trim; otherwise Deny{capability_not_granted} if neither     *)
(* (plugin, project, capability) nor (plugin, "*", capability) is granted; *)
(* otherwise RequireApproval{destructive_requires_approval, destructive}   *)
(* if the request is destructive and the flag is set; otherwise            *)
(* Allow{capability_granted}. An ungranted destructive request is denied.  *)
(***************************************************************************)
C2_Granted ==
    \E g \in allowed :
        /\ g[1] = arg.capability.plugin
        /\ g[3] = arg.capability.capability
        /\ g[2] \in {arg.capability.project, "*"}

C2_EmptyAfterTrim(s) == \A i \in 1..Len(s) : IsWhitespace(CharAt(s, i))

C2_DecideContract ==
    ret # NoRet =>
        /\ (C2_EmptyAfterTrim(arg.capability.plugin) \/ C2_EmptyAfterTrim(arg.capability.capability))
              => ret = [error |-> "InvalidRequest"]
        /\ (~C2_EmptyAfterTrim(arg.capability.plugin) /\ ~C2_EmptyAfterTrim(arg.capability.capability))
              => /\ ~C2_Granted
                    => ret = [decision |-> "deny", reason_code |-> "capability_not_granted"]
                 /\ (C2_Granted /\ arg.risk_tier = "destructive" /\ require_approval_for_destructive)
                    => ret = [decision |-> "require_approval",
                              reason_code |-> "destructive_requires_approval",
                              tier |-> "destructive"]
                 /\ (C2_Granted /\ ~(arg.risk_tier = "destructive" /\ require_approval_for_destructive))
                    => ret = [decision |-> "allow", reason_code |-> "capability_granted"]

\* an ungranted destructive request was decided with the approval flag set
C2_Witness ==
    /\ ret # NoRet
    /\ arg.risk_tier = "destructive"
    /\ require_approval_for_destructive
    /\ ~C2_Granted
    /\ Trim(arg.capability.plugin) # ""
    /\ Trim(arg.capability.capability) # ""
    /\ ret.decision = "deny"


(***************************************************************************)
(* Paths. A PathBuf is the sequence of its components: "/" for the root,   *)
(* "." for CurDir, ".." for ParentDir and the name of a Normal component,  *)
(* so PathBuf equality and starts_with are equality and prefix of          *)
(* component sequences, as in std::path.                                   *)
(***************************************************************************)
is_absolute(s) == StartsWith(s, "/")

\* Path::components on Unix
components(s) ==
    LET pieces == SelectSeq(Split(s, {"/"}), LAMBDA p : Len(p) > 0)
        root == IF is_absolute(s) THEN <<"/">> ELSE <<>>
        cur == IF ~is_absolute(s) /\ Len(pieces) > 0 /\ pieces[1] = "." THEN <<".">> ELSE <<>>
    IN  root \o cur \o SelectSeq(pieces, LAMBDA p : p # ".")

\* PathBuf::starts_with
path_starts_with(path, base) ==
    Len(base) <= Len(path) /\ SubSeq(path, 1, Len(base)) = base

RECURSIVE JoinParts(_)
JoinParts(parts) ==
    IF Len(parts) = 0 THEN ""
    ELSE IF Len(parts) = 1 THEN parts[1]
    ELSE parts[1] \o "/" \o JoinParts(Tail(parts))

pathbuf_to_string(path) ==
    IF Len(path) > 0 /\ path[1] = "/" THEN "/" \o JoinParts(Tail(path))
    ELSE JoinParts(path)

RECURSIVE LexicalParts(_, _, _)
\* the loop of normalize_lexical_path over the components after the root:
\* None when ".." would climb above the root
LexicalParts(comps, has_root, parts) ==
    IF Len(comps) = 0 THEN Some(parts)
    ELSE LET c == Head(comps)
             rest == Tail(comps)
         IN  IF c = "/" \/ c = "." THEN LexicalParts(rest, has_root, parts)
             ELSE IF c = ".."
             THEN IF Len(parts) > 0
                  THEN IF parts[Len(parts)] # ".."
                       THEN LexicalParts(rest, has_root, SubSeq(parts, 1, Len(parts) - 1))
                       ELSE IF has_root THEN None
                       ELSE LexicalParts(rest, has_root, Append(parts, ".."))
                  ELSE IF has_root THEN None
                  ELSE LexicalParts(rest, has_root, Append(parts, ".."))
             ELSE LexicalParts(rest, has_root, Append(parts, c))

normalize_lexical_path(s) ==
    LET comps == components(s)
        has_root == Len(comps) > 0 /\ comps[1] = "/"
        parts == LexicalParts(comps, has_root, <<>>)
    IN  IF ~IsSome(parts) THEN None
        ELSE IF has_root THEN Some(<<"/">> \o Unwrap(parts))
        ELSE IF Len(Unwrap(parts)) = 0 THEN Some(<<".">>)
        ELSE Some(Unwrap(parts))

(***************************************************************************)
(* The file system fs::canonicalize reads: directories, regular files and  *)
(* symbolic links (each link names the canonical path of its target).      *)
(* Paths below the root are sequences of names.                            *)
(***************************************************************************)
FsDirs == { <<>>, <<"w">>, <<"w", "sub">>, <<"etc">> }
FsFiles == { <<"w", "a.txt">>, <<"etc", "passwd">> }
FsSymlink == (<<"w", "link">> :> <<"etc">>) @@ (<<"ws">> :> <<"w">>)

RECURSIVE Resolve(_, _)
\* realpath: walk the raw pieces of an absolute path from the directory cur
Resolve(cur, pieces) ==
    IF Len(pieces) = 0 THEN Some(cur)
    ELSE LET p == Head(pieces)
             rest == Tail(pieces)
         IN  IF p = "" THEN Resolve(cur, rest)
             ELSE IF cur \notin FsDirs THEN None
             ELSE IF p = "." THEN Resolve(cur, rest)
             ELSE IF p = ".."
             THEN Resolve(IF Len(cur) = 0 THEN cur ELSE SubSeq(cur, 1, Len(cur) - 1), rest)
             ELSE LET next == Append(cur, p)
                  IN  IF next \in DOMAIN FsSymlink THEN Resolve(FsSymlink[next], rest)
                      ELSE IF next \in FsDirs \cup FsFiles THEN Resolve(next, rest)
                      ELSE None

\* fs::canonicalize(path).ok() for an absolute path
canonicalize(s) ==
    LET r == Resolve(<<>>, Split(s, {"/"}))
    IN  IF IsSome(r) THEN Some(<<"/">> \o Unwrap(r)) ELSE None

normalize_boundary_path(s) ==
    IF is_absolute(s) /\ IsSome(canonicalize(s)) THEN canonicalize(s)
    ELSE normalize_lexical_path(s)

\* canonicalize_existing_absolute_path falling back to the lexical form of a missing path
canonicalize_existing_absolute_path_LexicalFallback(s) ==
    IF ~is_absolute(s) THEN None ELSE normalize_boundary_path(s)

canonicalize_existing_absolute_path(s) ==
    IF ~is_absolute(s) THEN None ELSE canonicalize(s)

(***************************************************************************)
(* odin-governance plugins.rs: normalisation of allowlist entries          *)
(***************************************************************************)
DomainRule(host, allow_subdomains) == [host |-> host, allow_subdomains |-> allow_subdomains]

\* s.strip_prefix("https://").or_else(|| s.strip_prefix("http://"))
StripScheme(s) ==
    IF IsSome(StripPrefix(s, "https://")) THEN StripPrefix(s, "https://")
    ELSE StripPrefix(s, "http://")

normalize_domain(domain) ==
    LET lowered == ToAsciiLowercase(Trim(domain))
        no_scheme == IF IsSome(StripScheme(lowered)) THEN Unwrap(StripScheme(lowered)) ELSE lowered
        allow_subdomains == IsSome(StripPrefix(no_scheme, "*."))
        domain_part == IF allow_subdomains THEN Unwrap(StripPrefix(no_scheme, "*.")) ELSE no_scheme
        host == Trim(SplitFirst(SplitFirst(domain_part, {"/", "?", "#"}), {":"}))
    IN  IF host = "" THEN None ELSE Some(DomainRule(host, allow_subdomains))

RECURSIVE TrimEndMatches(_, _)
TrimEndMatches(s, c) ==
    IF Len(s) > 0 /\ CharAt(s, Len(s)) = c THEN TrimEndMatches(SubSeq(s, 1, Len(s) - 1), c)
    ELSE s

normalize_workspace(workspace) ==
    LET trimmed == TrimEndMatches(Trim(workspace), "/")
    IN  IF trimmed = "" THEN None
        ELSE IF is_absolute(trimmed)
        THEN IF IsSome(normalize_boundary_path(trimmed))
             THEN Some(pathbuf_to_string(Unwrap(normalize_boundary_path(trimmed))))
             ELSE None
        ELSE Some(trimmed)

normalize_command_scope_entry(command) ==
    LET normalized == Trim(command)
    IN  IF normalized = "" THEN None
        ELSE IF \E i \in 1..Len(normalized) : IsWhitespace(CharAt(normalized, i)) THEN None
        ELSE Some(normalized)

normalize_command_name(command) ==
    IF Trim(command) = "" THEN None ELSE Some(Trim(command))

\* the values of the entries of a list that normalise to Some
FilterMap(Op(_), entries) == {Unwrap(Op(e)) : e \in {x \in Range(entries) : IsSome(Op(x))}}


(***************************************************************************)
(* odin-governance plugins.rs: StagehandPolicy                             *)
(***************************************************************************)
allow(reason_code) == [decision |-> "Allow", reason_code |-> reason_code]
deny(reason_code) == [decision |-> "Deny", reason_code |-> reason_code]

stagehand_default_policy ==
    [enabled |-> FALSE, mode |-> "ReadObserve", allowed_domains |-> {},
     allowed_workspaces |-> {}, allowed_commands |-> {}]

extract_host(url) ==
    LET trimmed == Trim(url)
        without_scheme == StripScheme(trimmed)
    IN  IF ~IsSome(without_scheme) THEN None
        ELSE LET authority == Trim(SplitFirst(Unwrap(without_scheme), {"/", "?", "#"}))
                 host_port == RSplitFirst(authority, {"@"})
                 host == ToAsciiLowercase(Trim(SplitFirst(host_port, {":"})))
             IN  IF host = "" THEN None ELSE Some(host)

\* domain_matches with the apex accepted under a wildcard rule
domain_matches_ApexUnderWildcard(host, rule) ==
    IF rule.allow_subdomains THEN EndsWith(host, rule.host)
    ELSE host = rule.host

domain_matches(host, rule) ==
    IF rule.allow_subdomains THEN EndsWith(host, "." \o rule.host)
    ELSE host = rule.host

evaluate_observe_url(policy, url) ==
    LET host == extract_host(url)
    IN  IF ~IsSome(host) THEN deny("invalid_url")
        ELSE IF policy.allowed_domains = {} THEN deny("domain_not_allowlisted")
        ELSE IF \E rule \in policy.allowed_domains : domain_matches(Unwrap(host), rule)
        THEN allow("domain_allowlisted")
        ELSE deny("domain_not_allowlisted")

is_workspace_allowlisted(policy, workspace) ==
    LET candidate == normalize_boundary_path(workspace)
    IN  /\ IsSome(candidate)
        /\ \E w \in policy.allowed_workspaces :
              /\ IsSome(normalize_boundary_path(w))
              /\ \/ Unwrap(candidate) = Unwrap(normalize_boundary_path(w))
                 \/ path_starts_with(Unwrap(candidate), Unwrap(normalize_boundary_path(w)))

evaluate_workspace(policy, workspace) ==
    IF policy.mode # "ReadObserve" THEN deny("mode_not_supported")
    ELSE LET normalized == normalize_workspace(workspace)
         IN  IF ~IsSome(normalized) THEN deny("workspace_not_allowlisted")
             ELSE IF is_workspace_allowlisted(policy, Unwrap(normalized))
             THEN allow("workspace_allowlisted")
             ELSE deny("workspace_not_allowlisted")

UnsafeShellChars == {";", "|", "&", ">", "<", "`", "$", "(", ")", "\n", "\r", "'", "\""}

has_unsafe_shell_syntax(command) ==
    \E i \in 1..Len(command) : CharAt(command, i) \in UnsafeShellChars

strip_wrapping_quotes(value) ==
    LET trimmed == Trim(value)
    IN  IF /\ Len(trimmed) >= 2
           /\ \/ StartsWith(trimmed, "'") /\ EndsWith(trimmed, "'")
              \/ StartsWith(trimmed, "\"") /\ EndsWith(trimmed, "\"")
        THEN SubSeq(trimmed, 2, Len(trimmed) - 1)
        ELSE trimmed

\* Some(<<command_name, args>>), or None for a command without a token
parse_command(command) ==
    LET tokens == SplitWhitespace(command)
    IN  IF Len(tokens) = 0 THEN None
        ELSE IF ~IsSome(normalize_command_name(tokens[1])) THEN None
        ELSE Some(<<Unwrap(normalize_command_name(tokens[1])),
                    [i \in 1..(Len(tokens) - 1) |-> strip_wrapping_quotes(tokens[i + 1])]>>)

normalize_option_value(value) ==
    LET trimmed == Trim(strip_wrapping_quotes(value))
    IN  IF trimmed = "" THEN None ELSE Some(trimmed)

extract_option_value(token) ==
    IF StartsWith(token, "--")
    THEN LET eq == FindFrom(token, {"="}, 1)
         IN  IF eq = 0 THEN None
             ELSE normalize_option_value(SubSeq(token, eq + 1, Len(token)))
    ELSE IF StartsWith(token, "-")
    THEN IF Len(token) <= 2 THEN None
         ELSE LET attached == SubSeq(token, 3, Len(token))
              IN  normalize_option_value(
                      IF IsSome(StripPrefix(attached, "=")) THEN Unwrap(StripPrefix(attached, "="))
                      ELSE attached)
    ELSE None

RECURSIVE command_scoped_path_values(_)
command_scoped_path_values(args) ==
    IF Len(args) = 0 THEN <<>>
    ELSE LET trimmed == Trim(strip_wrapping_quotes(Head(args)))
             rest == command_scoped_path_values(Tail(args))
         IN  IF trimmed = "" THEN rest
             ELSE IF IsSome(extract_option_value(trimmed))
             THEN <<Unwrap(extract_option_value(trimmed))>> \o rest
             ELSE IF StartsWith(trimmed, "-") THEN rest
             ELSE <<trimmed>> \o rest

has_relative_parent_segment(token) ==
    ~is_absolute(token) /\ ".." \in Range(components(token))

has_relative_parent_traversal(args) ==
    \E value \in Range(command_scoped_path_values(args)) : has_relative_parent_segment(value)

\* has_unscoped_relative_path looking at positional tokens only
has_unscoped_relative_path_PositionalOnly(args) ==
    \E value \in Range(SelectSeq(args, LAMBDA token : ~StartsWith(token, "-"))) :
        ~is_absolute(value)

has_unscoped_relative_path(args) ==
    \E value \in Range(command_scoped_path_values(args)) : ~is_absolute(value)

\* the absolute path value is outside every allowed workspace, or does not resolve
PathOutsideWorkspaces(path, allowed_workspaces) ==
    LET path_obj == canonicalize_existing_absolute_path(path)
    IN  IF ~IsSome(path_obj) THEN TRUE
        ELSE ~\E w \in allowed_workspaces :
                /\ IsSome(normalize_boundary_path(w))
                /\ \/ Unwrap(path_obj) = Unwrap(normalize_boundary_path(w))
                   \/ path_starts_with(Unwrap(path_obj), Unwrap(normalize_boundary_path(w)))

\* Some(first offending path value) or None
first_absolute_path_outside_workspaces(args, allowed_workspaces) ==
    LET values == SelectSeq(command_scoped_path_values(args), is_absolute)
        bad == SelectSeq(values, LAMBDA v : PathOutsideWorkspaces(v, allowed_workspaces))
    IN  IF Len(bad) = 0 THEN None ELSE Some(bad[1])

evaluate_command(policy, command) ==
    IF policy.mode # "ReadObserve" THEN deny("mode_not_supported")
    ELSE IF has_unsafe_shell_syntax(command) THEN deny("command_unsafe_shell_syntax")
    ELSE LET parsed == parse_command(command)
         IN  IF ~IsSome(parsed) THEN deny("command_not_allowlisted")
             ELSE LET command_name == Unwrap(parsed)[1]
                      args == Unwrap(parsed)[2]
                  IN  IF command_name \notin policy.allowed_commands
                      THEN deny("command_not_allowlisted")
                      ELSE IF policy.allowed_workspaces = {}
                      THEN deny("command_workspace_policy_missing")
                      ELSE IF has_relative_parent_traversal(args)
                      THEN deny("command_relative_path_traversal")
                      ELSE IF policy.allowed_workspaces # {} /\ has_unscoped_relative_path(args)
                      THEN deny("command_relative_path_unscoped")
                      ELSE IF IsSome(first_absolute_path_outside_workspaces(
                                         args, policy.allowed_workspaces))
                      THEN deny("command_path_outside_allowlisted_workspace")
                      ELSE allow("command_allowlisted")

\* evaluate with the enabled check placed before the sensitive actions
evaluate_DisabledFirst(policy, action) ==
    IF ~policy.enabled THEN deny("plugin_disabled")
    ELSE IF action.kind = "Login" THEN deny("action_login_disallowed")
    ELSE IF action.kind = "Payment" THEN deny("action_payment_disallowed")
    ELSE IF action.kind = "PiiSubmit" THEN deny("action_pii_submit_disallowed")
    ELSE IF action.kind = "FileUpload" THEN deny("action_file_upload_disallowed")
    ELSE IF action.kind = "ObserveUrl" THEN evaluate_observe_url(policy, action.value)
    ELSE IF action.kind = "ReadWorkspace" THEN evaluate_workspace(policy, action.value)
    ELSE evaluate_command(policy, action.value)

\* StagehandPolicy::evaluate; an action is [kind, value]
evaluate(policy, action) ==
    IF action.kind = "Login" THEN deny("action_login_disallowed")
    ELSE IF action.kind = "Payment" THEN deny("action_payment_disallowed")
    ELSE IF action.kind = "PiiSubmit" THEN deny("action_pii_submit_disallowed")
    ELSE IF action.kind = "FileUpload" THEN deny("action_file_upload_disallowed")
    ELSE IF ~policy.enabled THEN deny("plugin_disabled")
    ELSE IF action.kind = "ObserveUrl" THEN evaluate_observe_url(policy, action.value)
    ELSE IF action.kind = "ReadWorkspace" THEN evaluate_workspace(policy, action.value)
    ELSE evaluate_command(policy, action.value)

\* apply_permission_scope enabling the plugin whatever the trust level
apply_permission_scope_IgnoringTrust(policy, permission, can_enable) ==
    IF permission.id \in {"browser.observe", "stagehand.observe_url", "stagehand.observe_domain"}
    THEN [policy EXCEPT !.allowed_domains = @ \cup FilterMap(normalize_domain, permission.scope)]
    ELSE IF permission.id \in {"workspace.read", "stagehand.workspace.read"}
    THEN [policy EXCEPT !.allowed_workspaces = @ \cup FilterMap(normalize_workspace, permission.scope)]
    ELSE IF permission.id \in {"command.run", "stagehand.command.run"}
    THEN [policy EXCEPT !.allowed_commands =
                            @ \cup FilterMap(normalize_command_scope_entry, permission.scope)]
    ELSE IF permission.id = "stagehand.enabled"
    THEN [policy EXCEPT !.enabled = TRUE]
    ELSE policy

apply_permission_scope(policy, permission, can_enable) ==
    IF permission.id \in {"browser.observe", "stagehand.observe_url", "stagehand.observe_domain"}
    THEN [policy EXCEPT !.allowed_domains = @ \cup FilterMap(normalize_domain, permission.scope)]
    ELSE IF permission.id \in {"workspace.read", "stagehand.workspace.read"}
    THEN [policy EXCEPT !.allowed_workspaces = @ \cup FilterMap(normalize_workspace, permission.scope)]
    ELSE IF permission.id \in {"command.run", "stagehand.command.run"}
    THEN [policy EXCEPT !.allowed_commands =
                            @ \cup FilterMap(normalize_command_scope_entry, permission.scope)]
    ELSE IF permission.id = "stagehand.enabled"
    THEN IF can_enable THEN [policy EXCEPT !.enabled = TRUE] ELSE policy
    ELSE policy

RECURSIVE ApplyPermissions(_, _, _)
ApplyPermissions(policy, permissions, can_enable) ==
    IF Len(permissions) = 0 THEN policy
    ELSE ApplyPermissions(apply_permission_scope(policy, Head(permissions), can_enable),
                          Tail(permissions), can_enable)

stagehand_policy_from_envelope(envelope) ==
    IF envelope.plugin # "stagehand" THEN stagehand_default_policy
    ELSE ApplyPermissions(stagehand_default_policy, envelope.permissions,
                          envelope.trust_level # "untrusted")


(***************************************************************************)
(* Building a StagehandPolicy and evaluating one action against it.        *)
(***************************************************************************)
RawDomains == {"example.com", "*.example.com", "https://Sub.Example.com:443/p", "#"}
RawWorkspaces == {"/w", "/ws/", "/home/x", "rel"}
RawCommands == {"cat", " ls ", "cat --color=always"}

TrustLevel == {"trusted", "caution", "untrusted"}

DelegationCapability(id, scope) == [id |-> id, scope |-> scope]

PermissionLists ==
    { <<>>,
      <<DelegationCapability("stagehand.enabled", <<>>),
        DelegationCapability("browser.observe", <<"example.com">>)>>,
      <<DelegationCapability("browser.observe", <<"example.com">>),
        DelegationCapability("command.run", <<"cat">>),
        DelegationCapability("workspace.read", <<"/w">>)>>,
      <<DelegationCapability("stagehand.observe_domain", <<"*.example.com">>),
        DelegationCapability("stagehand.command.run", <<"cat">>),
        DelegationCapability("stagehand.workspace.read", <<"/w">>),
        DelegationCapability("stagehand.enabled", <<>>)>> }

Envelopes ==
    { [plugin |-> p, trust_level |-> t, permissions |-> perms] :
        p \in {"stagehand", "example.safe-github"}, t \in TrustLevel, perms \in PermissionLists }

Urls ==
    { "https://example.com/path", "https://sub.example.com/path", "https://example.com",
      "http://EXAMPLE.com:8080/x?y#z", "https://user:pw@example.com/",
      "https://example.com@evil.org/", "https://evil.org/@example.com",
      "https://a@b@sub.example.com?q", "https://notexample.com", "https://example.com.evil.org",
      "https://a.b.example.com#f", "example.com", "ftp://example.com", "https://", "" }

WorkspaceInputs == { "/w", "/w/sub/", "/w/link", "/etc", "/home/x/y", "rel", "/w/missing/../..", "" }

Commands ==
    { "cat /w/a.txt", "cat /w/missing", "cat /w/missing/a.txt", "cat /etc/passwd",
      "cat /w/link/passwd", "cat /ws/a.txt", "cat ../x", "cat ../x /w/missing",
      "cat /w/a.txt; id", "cat /w/missing | id", "cat --color=always", "cat always /w/a.txt",
      "cat note.txt /w/missing", "cat --input=/w/a.txt", "cat --input=/w/missing",
      "cat -f/etc/passwd", "cat -f=/w/a.txt", "cat -n /w/sub", "cat -- -x", "cat -- /w/a.txt",
      "cat /w/a.txt /home/x/y", "ls /w", "rm /w/a.txt", "cat", "",
      "cat -n --input=/ws/a.txt -f/w/sub /w/a.txt", "cat - --flag= -x= /w/a.txt",
      "cat -nv /w/a.txt" }

StagehandAction(kind, value) == [kind |-> kind, value |-> value]

StagehandActions ==
    {StagehandAction(k, "") : k \in {"Login", "Payment", "PiiSubmit", "FileUpload"}}
    \cup {StagehandAction("ObserveUrl", u) : u \in Urls}
    \cup {StagehandAction("ReadWorkspace", w) : w \in WorkspaceInputs}
    \cup {StagehandAction("RunCommand", c) : c \in Commands}

InitStagehand ==
    /\ stagehand = stagehand_default_policy
    /\ built_from = None
    /\ IdleDisk
    /\ arg = NoRet
    /\ ret = NoRet
    /\ allowed = {}
    /\ require_approval_for_destructive = FALSE
    /\ IdleRuntime

StagehandFrame ==
    UNCHANGED <<allowed, require_approval_for_destructive, executor, sink, ingress, call, disk>>

with_enabled ==
    /\ ret = NoRet /\ built_from = None
    /\ \E enabled \in BOOLEAN : stagehand' = [stagehand EXCEPT !.enabled = enabled]
    /\ UNCHANGED <<built_from, arg, ret>>
    /\ StagehandFrame

with_domains ==
    /\ ret = NoRet /\ built_from = None
    /\ \E d \in RawDomains :
          stagehand' = [stagehand EXCEPT !.allowed_domains = @ \cup FilterMap(normalize_domain, <<d>>)]
    /\ UNCHANGED <<built_from, arg, ret>>
    /\ StagehandFrame

with_workspaces ==
    /\ ret = NoRet /\ built_from = None
    /\ \E w \in RawWorkspaces :
          stagehand' = [stagehand EXCEPT !.allowed_workspaces = @ \cup FilterMap(normalize_workspace, <<w>>)]
    /\ UNCHANGED <<built_from, arg, ret>>
    /\ StagehandFrame

with_commands ==
    /\ ret = NoRet /\ built_from = None
    /\ \E c \in RawCommands :
          stagehand' = [stagehand EXCEPT !.allowed_commands =
                                       @ \cup FilterMap(normalize_command_scope_entry, <<c>>)]
    /\ UNCHANGED <<built_from, arg, ret>>
    /\ StagehandFrame

FromEnvelope ==
    /\ ret = NoRet /\ built_from = None /\ stagehand = stagehand_default_policy
    /\ \E e \in Envelopes :
          /\ stagehand' = stagehand_policy_from_envelope(e)
          /\ built_from' = Some(e)
    /\ UNCHANGED <<arg, ret>>
    /\ StagehandFrame

Evaluate ==
    /\ ret = NoRet
    /\ \E action \in StagehandActions :
          /\ arg' = action
          /\ ret' = evaluate(stagehand, action)
    /\ UNCHANGED <<stagehand, built_from>>
    /\ StagehandFrame

NextStagehand ==
    \/ with_enabled
    \/ with_domains
    \/ with_workspaces
    \/ with_commands
    \/ FromEnvelope
    \/ Evaluate

SpecStagehand == InitStagehand /\ [][NextStagehand]_vars

Evaluated(kind) == ret # NoRet /\ arg.kind = kind


(***************************************************************************)
(* C7: for every stagehand policy, enabled or disabled and with any        *)
(* allowlists, Login, Payment, PiiSubmit and FileUpload are denied, each   *)
(* with its own reason code, and never allowed.                            *)
(***************************************************************************)
C7_SensitiveCode ==
    [Login |-> "action_login_disallowed", Payment |-> "action_payment_disallowed",
     PiiSubmit |-> "action_pii_submit_disallowed", FileUpload |-> "action_file_upload_disallowed"]

C7_SensitiveAlwaysDenied ==
    \A k \in DOMAIN C7_SensitiveCode :
        Evaluated(k) => ret = [decision |-> "Deny", reason_code |-> C7_SensitiveCode[k]]

\* a disabled policy carrying allowlists was asked for a payment
C7_Witness ==
    /\ Evaluated("Payment")
    /\ ~stagehand.enabled
    /\ stagehand.allowed_domains # {}
    /\ ret.reason_code = "action_payment_disallowed"

(***************************************************************************)
(* C8: a policy built by stagehand_policy_from_envelope is enabled iff the *)
(* envelope's plugin is "stagehand", its permissions contain               *)
(* stagehand.enabled and its trust level is not untrusted; a policy built  *)
(* from any other envelope denies every ObserveUrl, ReadWorkspace and      *)
(* RunCommand with plugin_disabled, whatever allowlists it carries.        *)
(***************************************************************************)
C8_MayEnable(e) ==
    /\ e.plugin = "stagehand"
    /\ \E i \in 1..Len(e.permissions) : e.permissions[i].id = "stagehand.enabled"
    /\ e.trust_level # "untrusted"

C8_EnabledOnlyByTrustedEnvelope ==
    built_from # None =>
        /\ stagehand.enabled <=> C8_MayEnable(built_from[1])
        /\ \A k \in {"ObserveUrl", "ReadWorkspace", "RunCommand"} :
              (Evaluated(k) /\ ~C8_MayEnable(built_from[1]))
                 => ret = [decision |-> "Deny", reason_code |-> "plugin_disabled"]

\* an untrusted stagehand envelope with stagehand.enabled and an allowlist that
\* covers the URL was evaluated
C8_Witness ==
    /\ built_from # None
    /\ built_from[1].plugin = "stagehand"
    /\ built_from[1].trust_level = "untrusted"
    /\ \E i \in 1..Len(built_from[1].permissions) : built_from[1].permissions[i].id = "stagehand.enabled"
    /\ [host |-> "example.com", allow_subdomains |-> FALSE] \in stagehand.allowed_domains
    /\ Evaluated("ObserveUrl")
    /\ arg.value = "https://example.com"
    /\ ret.reason_code = "plugin_disabled"

(***************************************************************************)
(* C9: fail-closed path check.                                             *)
(***************************************************************************)
C9_Tokens == SplitWhitespace(arg.value)

C9_Args == {C9_Tokens[i] : i \in 2..Len(C9_Tokens)}

\* the path values the arguments carry: positional words, the value of
\* --name=value and the value attached to a short option
C9_PathValues ==
    {t \in C9_Args : ~StartsWith(t, "-")}
    \cup {SubSeq(t, FindFrom(t, {"="}, 1) + 1, Len(t)) :
              t \in {x \in C9_Args : StartsWith(x, "--") /\ FindFrom(x, {"="}, 1) # 0}}
    \cup {SubSeq(t, IF CharAt(t, 3) = "=" THEN 4 ELSE 3, Len(t)) :
              t \in {x \in C9_Args : StartsWith(x, "-") /\ ~StartsWith(x, "--") /\ Len(x) > 2}}

C9_Unresolvable(v) == StartsWith(v, "/") /\ canonicalize(v) = None

C9_Case ==
    /\ Evaluated("RunCommand")
    /\ stagehand.enabled
    /\ Len(C9_Tokens) > 0
    /\ C9_Tokens[1] \in stagehand.allowed_commands
    /\ stagehand.allowed_workspaces # {}
    /\ \E v \in C9_PathValues : C9_Unresolvable(v)

C9_Code == [decision |-> "Deny", reason_code |-> "command_path_outside_allowlisted_workspace"]

\* C9 as stated: for an enabled policy with an allowlisted command and at
\* least one allowed workspace, a RunCommand whose arguments include an
\* absolute path that cannot be canonicalized is denied with
\* command_path_outside_allowlisted_workspace.
C9_FailClosedCodeAlways == C9_Case => ret = C9_Code

C9_NoEarlierDenial ==
    /\ \A i \in 1..Len(arg.value) : CharAt(arg.value, i) \notin UnsafeShellChars
    /\ \A v \in C9_PathValues : v = "" \/ StartsWith(v, "/")

\* C9 as amended: such a command is always denied, and with
\* command_path_outside_allowlisted_workspace whenever it holds no shell
\* metacharacter and no relative path value (these are checked first and
\* deny with their own codes), even when the path is lexically under an
\* allowed workspace.
C9_FailClosed ==
    C9_Case =>
        /\ ret.decision = "Deny"
        /\ C9_NoEarlierDenial => ret = C9_Code

\* a missing path that is lexically under an allowed workspace was denied
C9_Witness ==
    /\ C9_Case
    /\ C9_NoEarlierDenial
    /\ \E v \in C9_PathValues, w \in stagehand.allowed_workspaces :
          C9_Unresolvable(v) /\ StartsWith(v, w \o "/")
    /\ ret = C9_Code

(***************************************************************************)
(* C10: for an enabled policy ObserveUrl(u) is allowed iff some domain     *)
(* rule matches the host of u: host = rule.host for an exact rule, host    *)
(* ends with "." + rule.host for a wildcard rule (the apex never matches a *)
(* wildcard rule, a subdomain never an exact rule). The host is the        *)
(* lowercased authority without userinfo (up to the last @), port, path,   *)
(* query and fragment; a URL without http:// or https:// is invalid_url.   *)
(***************************************************************************)
C10_Min(S) == CHOOSE x \in S : \A y \in S : x <= y
C10_Max(S) == CHOOSE x \in S : \A y \in S : x >= y

C10_Scheme(u) ==
    IF Len(u) >= 8 /\ SubSeq(u, 1, 8) = "https://" THEN 8
    ELSE IF Len(u) >= 7 /\ SubSeq(u, 1, 7) = "http://" THEN 7
    ELSE 0

\* the host of a URL that has a scheme
C10_Host(u) ==
    LET from == C10_Scheme(u) + 1
        stop == C10_Min({i \in from..Len(u) : CharAt(u, i) \in {"/", "?", "#"}} \cup {Len(u) + 1})
        at == C10_Max({i \in from..(stop - 1) : CharAt(u, i) = "@"} \cup {from - 1})
        colon == C10_Min({i \in (at + 1)..(stop - 1) : CharAt(u, i) = ":"} \cup {stop})
    IN  ToAsciiLowercase(SubSeq(u, at + 1, colon - 1))

C10_RuleMatches(host, rule) ==
    IF rule.allow_subdomains
    THEN \E k \in 1..Len(host) : SubSeq(host, k, Len(host)) = "." \o rule.host
    ELSE host = rule.host

C10_ObserveUrlMatchesHost ==
    (Evaluated("ObserveUrl") /\ stagehand.enabled) =>
        /\ C10_Scheme(arg.value) = 0 => ret = [decision |-> "Deny", reason_code |-> "invalid_url"]
        /\ ret.decision = "Allow"
              <=> /\ C10_Scheme(arg.value) # 0
                  /\ \E rule \in stagehand.allowed_domains :
                        C10_RuleMatches(C10_Host(arg.value), rule)

\* the apex was refused under a wildcard-only allowlist
C10_Witness ==
    /\ Evaluated("ObserveUrl")
    /\ stagehand.enabled
    /\ stagehand.allowed_domains = {[host |-> "example.com", allow_subdomains |-> TRUE]}
    /\ arg.value = "http://EXAMPLE.com:8080/x?y#z"
    /\ ret = [decision |-> "Deny", reason_code |-> "domain_not_allowlisted"]


(***************************************************************************)
(* odin-core-runtime: OrchestratorRuntime                                  *)
(*                                                                         *)
(* A JSON object is the set of its <<key, string value>> members; null is  *)
(* JsonNull. A handler run yields the effects it had, in program order,    *)
(* and its result: [ok |-> outcome] or [err |-> error kind]. The           *)
(* environment of a run says whether the executor succeeds and which       *)
(* AuditSink::record call of the run, if any, fails.                       *)
(***************************************************************************)
JsonNull == [json |-> "null"]

input_string(input, key) ==
    IF \E kv \in input : kv[1] = key
    THEN Some((CHOOSE kv \in input : kv[1] = key)[2])
    ELSE None

ActionOutcome(request_id, status, detail, output) ==
    [request_id |-> request_id, status |-> status, detail |-> detail, output |-> output]

AuditRecord(event_type, request_id, task_id, project, metadata) ==
    [event_type |-> event_type, request_id |-> request_id, task_id |-> task_id,
     project |-> project, metadata |-> metadata]

\* the n-th AuditSink::record call of a run: the sink sees the record and accepts or fails
AuditEffect(record, n, env) ==
    [kind |-> "audit", record |-> record, accepted |-> n # env.audit_fail_at]

Ok(value) == [ok |-> value]
Err(kind) == [err |-> kind]
IsOk(result) == "ok" \in DOMAIN result

Run(effects, result) == [effects |-> effects, result |-> result]

\* the AuditSink::record calls among the effects
AuditsOf(effects) == SelectSeq(effects, LAMBDA e : e.kind = "audit")

\* ActionExecutor::execute of DryRunExecutor
DryRunExecutor(request) ==
    {<<"request_id", request.request_id>>, <<"result", "dry_run">>,
     <<"capability", request.capability.capability>>, <<"plugin", request.capability.plugin>>}

\* self.executor.execute(&request): the value it returned, None when it failed
ExecuteEffect(request, env) ==
    [kind |-> "execute", request |-> request,
     returned |-> IF env.exec_ok THEN Some(DryRunExecutor(request)) ELSE None]

validate_capability(capability) ==
    IF Trim(capability.plugin) = "" THEN Err("InvalidInput")
    ELSE IF Trim(capability.capability) = "" THEN Err("InvalidInput")
    ELSE Ok(TRUE)

decision_tag(decision) == decision.decision

\* evaluate_policy, its audit record being the (n + 1)-th of the run
evaluate_policy(grants, flag, request, env, n) ==
    IF ~IsOk(validate_capability(request.capability)) THEN Run(<<>>, Err("InvalidInput"))
    ELSE LET decision == decide(grants, flag, request)
         IN  IF "error" \in DOMAIN decision
             THEN Run(<<[kind |-> "decide", request |-> request, decision |-> decision]>>,
                      Err("Policy"))
             ELSE LET audit == AuditEffect(
                                   AuditRecord("policy.decision", Some(request.request_id), None,
                                               Some(request.capability.project),
                                               {<<"plugin", request.capability.plugin>>,
                                                <<"capability", request.capability.capability>>,
                                                <<"decision", decision_tag(decision)>>}),
                                   n + 1, env)
                      effects == <<[kind |-> "decide", request |-> request,
                                    decision |-> decision], audit>>
                  IN  IF audit.accepted THEN Run(effects, Ok(decision))
                      ELSE Run(effects, Err("Audit"))

\* the Allow arm of handle_action: the executor, then the action.executed record
execute_allowed_FailedOutcome(effects, request, env, n) ==
    LET execute == ExecuteEffect(request, env)
        audit == AuditEffect(
                     AuditRecord("action.executed", Some(request.request_id),
                                 None, Some(request.capability.project),
                                 {<<"plugin", request.capability.plugin>>,
                                  <<"capability", request.capability.capability>>}),
                     n + 2, env)
    IN  IF ~audit.accepted THEN Run(effects \o <<execute, audit>>, Err("Audit"))
        ELSE IF ~IsSome(execute.returned)
        THEN Run(effects \o <<execute, audit>>,
                 Ok(ActionOutcome(request.request_id, "Failed", "execution_failed", JsonNull)))
        ELSE Run(effects \o <<execute, audit>>,
                 Ok(ActionOutcome(request.request_id, "Executed", "executed",
                                  Unwrap(execute.returned))))

execute_allowed(effects, request, env, n) ==
    LET execute == ExecuteEffect(request, env)
    IN  IF ~IsSome(execute.returned)
        THEN Run(Append(effects, execute), Err("Execution"))
        ELSE LET output == Unwrap(execute.returned)
                 audit == AuditEffect(
                              AuditRecord("action.executed", Some(request.request_id),
                                          None, Some(request.capability.project),
                                          {<<"plugin", request.capability.plugin>>,
                                           <<"capability", request.capability.capability>>}),
                              n + 2, env)
             IN  IF audit.accepted
                 THEN Run(effects \o <<execute, audit>>,
                          Ok(ActionOutcome(request.request_id, "Executed", "executed", output)))
                 ELSE Run(effects \o <<execute, audit>>, Err("Audit"))

handle_action_run_ApprovalExecutes(grants, flag, request, env, n) ==
    LET policy_run == evaluate_policy(grants, flag, request, env, n)
    IN  IF ~IsOk(policy_run.result) THEN policy_run
        ELSE LET decision == policy_run.result.ok
             IN  IF decision.decision = "deny"
                 THEN Run(policy_run.effects,
                          Ok(ActionOutcome(request.request_id, "Blocked", decision.reason_code, JsonNull)))
                 ELSE execute_allowed(policy_run.effects, request, env, n)

\* handle_action, n audit records of the run preceding it
handle_action_run(grants, flag, request, env, n) ==
    LET policy_run == evaluate_policy(grants, flag, request, env, n)
    IN  IF ~IsOk(policy_run.result) THEN policy_run
        ELSE LET decision == policy_run.result.ok
             IN  IF decision.decision = "deny"
                 THEN Run(policy_run.effects,
                          Ok(ActionOutcome(request.request_id, "Blocked", decision.reason_code, JsonNull)))
                 ELSE IF decision.decision = "require_approval"
                 THEN Run(policy_run.effects,
                          Ok(ActionOutcome(request.request_id, "ApprovalPending",
                                           decision.reason_code, JsonNull)))
                 ELSE execute_allowed(policy_run.effects, request, env, n)

stagehand_action_from_capability(capability, input) ==
    LET value(key) == IF IsSome(input_string(input, key)) THEN Unwrap(input_string(input, key)) ELSE ""
    IN  IF capability \in {"browser.observe", "stagehand.observe_url", "stagehand.observe_domain"}
        THEN Some(StagehandAction("ObserveUrl", value("url")))
        ELSE IF capability \in {"workspace.read", "stagehand.workspace.read"}
        THEN Some(StagehandAction("ReadWorkspace", value("workspace")))
        ELSE IF capability \in {"command.run", "stagehand.command.run"}
        THEN Some(StagehandAction("RunCommand", value("command")))
        ELSE IF capability = "stagehand.login" THEN Some(StagehandAction("Login", ""))
        ELSE IF capability = "stagehand.payment" THEN Some(StagehandAction("Payment", ""))
        ELSE IF capability = "stagehand.pii_submit" THEN Some(StagehandAction("PiiSubmit", ""))
        ELSE IF capability = "stagehand.file_upload" THEN Some(StagehandAction("FileUpload", ""))
        ELSE None

is_stagehand_capability(capability) ==
    \/ capability \in {"browser.observe", "workspace.read", "command.run"}
    \/ StartsWith(capability, "stagehand.")

manifest_scope_permits_PlainSubset(requested_scope, granted_scope) ==
    \A i \in 1..Len(requested_scope) :
        \E j \in 1..Len(granted_scope) : granted_scope[j] = requested_scope[i]

manifest_scope_permits(requested_scope, granted_scope) ==
    IF Len(requested_scope) = 0 THEN Len(granted_scope) = 0
    ELSE IF Len(granted_scope) = 0 THEN FALSE
    ELSE \A i \in 1..Len(requested_scope) :
            \E j \in 1..Len(granted_scope) : granted_scope[j] = requested_scope[i]

\* the match on policy.evaluate(action): Allow is no denial, Deny its reason code
denial_of(decision) ==
    IF decision.decision = "Allow" THEN None ELSE Some(decision.reason_code)

stagehand_permission_denial(capability, input, manifest) ==
    IF manifest.plugin # "stagehand" THEN None
    ELSE LET action == stagehand_action_from_capability(capability, input)
         IN  IF ~IsSome(action)
             THEN IF StartsWith(capability, "stagehand.")
                  THEN Some("manifest_stagehand_capability_unknown")
                  ELSE None
             ELSE denial_of(evaluate(
                                stagehand_policy_from_envelope(
                                    [plugin |-> manifest.plugin, trust_level |-> "caution",
                                     permissions |-> manifest.capabilities]),
                                Unwrap(action)))

manifest_denial_reason_CapabilityFirst(request, manifest) ==
    LET matching_capabilities ==
            SelectSeq(manifest.capabilities, LAMBDA c : c.id = request.capability.capability)
    IN  IF Len(matching_capabilities) = 0 THEN Some("manifest_capability_not_granted")
        ELSE IF manifest.plugin # request.capability.plugin THEN Some("manifest_plugin_mismatch")
        ELSE IF ~\E i \in 1..Len(matching_capabilities) :
                    manifest_scope_permits(request.capability.scope, matching_capabilities[i].scope)
        THEN Some("manifest_scope_not_granted")
        ELSE IF is_stagehand_capability(request.capability.capability)
                /\ request.capability.plugin # "stagehand"
        THEN Some("plugin_permission_denied")
        ELSE stagehand_permission_denial(request.capability.capability, request.input, manifest)

manifest_denial_reason(request, manifest) ==
    LET matching_capabilities ==
            SelectSeq(manifest.capabilities, LAMBDA c : c.id = request.capability.capability)
    IN  IF manifest.plugin # request.capability.plugin THEN Some("manifest_plugin_mismatch")
        ELSE IF Len(matching_capabilities) = 0 THEN Some("manifest_capability_not_granted")
        ELSE IF ~\E i \in 1..Len(matching_capabilities) :
                    manifest_scope_permits(request.capability.scope, matching_capabilities[i].scope)
        THEN Some("manifest_scope_not_granted")
        ELSE IF is_stagehand_capability(request.capability.capability)
                /\ request.capability.plugin # "stagehand"
        THEN Some("plugin_permission_denied")
        ELSE stagehand_permission_denial(request.capability.capability, request.input, manifest)

\* handle_action_with_manifest after the manifest checks passed
validated_action_UsedOnAnyOutcome(grants, flag, request, manifest, env) ==
    LET validated == AuditEffect(
                         AuditRecord("governance.manifest.validated",
                                     Some(request.request_id), None,
                                     Some(request.capability.project),
                                     {<<"plugin", request.capability.plugin>>,
                                      <<"manifest_plugin", manifest.plugin>>,
                                      <<"capability", request.capability.capability>>}),
                         1, env)
    IN  IF ~validated.accepted THEN Run(<<validated>>, Err("Audit"))
        ELSE LET action_run == handle_action_run(grants, flag, request, env, 1)
                 effects == <<validated>> \o action_run.effects
             IN  IF ~IsOk(action_run.result) THEN Run(effects, action_run.result)
                 ELSE LET used == AuditEffect(
                                      AuditRecord("governance.capability.used",
                                                  Some(request.request_id), None,
                                                  Some(request.capability.project),
                                                  {<<"plugin", request.capability.plugin>>,
                                                   <<"capability", request.capability.capability>>}),
                                      Len(AuditsOf(effects)) + 1, env)
                      IN  IF used.accepted
                          THEN Run(Append(effects, used), action_run.result)
                          ELSE Run(Append(effects, used), Err("Audit"))

validated_action(grants, flag, request, manifest, env) ==
    LET validated == AuditEffect(
                         AuditRecord("governance.manifest.validated",
                                     Some(request.request_id), None,
                                     Some(request.capability.project),
                                     {<<"plugin", request.capability.plugin>>,
                                      <<"manifest_plugin", manifest.plugin>>,
                                      <<"capability", request.capability.capability>>}),
                         1, env)
    IN  IF ~validated.accepted THEN Run(<<validated>>, Err("Audit"))
        ELSE LET action_run == handle_action_run(grants, flag, request, env, 1)
                 effects == <<validated>> \o action_run.effects
             IN  IF ~IsOk(action_run.result) THEN Run(effects, action_run.result)
                 ELSE IF action_run.result.ok.status # "Executed"
                 THEN Run(effects, action_run.result)
                 ELSE LET used == AuditEffect(
                                      AuditRecord("governance.capability.used",
                                                  Some(request.request_id), None,
                                                  Some(request.capability.project),
                                                  {<<"plugin", request.capability.plugin>>,
                                                   <<"capability", request.capability.capability>>}),
                                      Len(AuditsOf(effects)) + 1, env)
                      IN  IF used.accepted
                          THEN Run(Append(effects, used), action_run.result)
                          ELSE Run(Append(effects, used), Err("Audit"))

denied_action_ThenValidated(request, manifest, env, reason_code) ==
    LET denied == AuditEffect(
                      AuditRecord("governance.manifest.denied", Some(request.request_id),
                                  None, Some(request.capability.project),
                                  {<<"plugin", request.capability.plugin>>,
                                   <<"manifest_plugin", manifest.plugin>>,
                                   <<"capability", request.capability.capability>>,
                                   <<"reason_code", reason_code>>}),
                      1, env)
        validated == AuditEffect(
                         AuditRecord("governance.manifest.validated",
                                     Some(request.request_id), None,
                                     Some(request.capability.project),
                                     {<<"plugin", request.capability.plugin>>,
                                      <<"manifest_plugin", manifest.plugin>>,
                                      <<"capability", request.capability.capability>>}),
                         2, env)
    IN  IF denied.accepted
        THEN Run(<<denied, validated>>,
                 Ok(ActionOutcome(request.request_id, "Blocked", reason_code, JsonNull)))
        ELSE Run(<<denied>>, Err("Audit"))

\* handle_action_with_manifest when a manifest check failed with reason_code
denied_action(request, manifest, env, reason_code) ==
    LET denied == AuditEffect(
                      AuditRecord("governance.manifest.denied", Some(request.request_id),
                                  None, Some(request.capability.project),
                                  {<<"plugin", request.capability.plugin>>,
                                   <<"manifest_plugin", manifest.plugin>>,
                                   <<"capability", request.capability.capability>>,
                                   <<"reason_code", reason_code>>}),
                      1, env)
    IN  IF denied.accepted
        THEN Run(<<denied>>, Ok(ActionOutcome(request.request_id, "Blocked", reason_code, JsonNull)))
        ELSE Run(<<denied>>, Err("Audit"))

\* the manifest stage, manifest_denial being the outcome of its checks
manifest_stage(grants, flag, request, manifest, env, manifest_denial) ==
    IF IsSome(manifest_denial)
    THEN denied_action(request, manifest, env, Unwrap(manifest_denial))
    ELSE validated_action(grants, flag, request, manifest, env)

handle_action_with_manifest_run(grants, flag, request, manifest, env) ==
    IF ~IsOk(validate_capability(request.capability)) THEN Run(<<>>, Err("InvalidInput"))
    ELSE manifest_stage(grants, flag, request, manifest, env,
                        IF manifest.schema_version # 1
                        THEN Some("manifest_schema_version_unsupported")
                        ELSE manifest_denial_reason(request, manifest))

(***************************************************************************)
(* Watchdog tasks. A raw task is a text that is not JSON (Malformed) or a  *)
(* JSON document: JsonStr, JsonNum, JsonNull and JsonObj values, an object *)
(* being a function from its keys to values.                               *)
(***************************************************************************)
JsonStr(s) == [str |-> s]
JsonNum(n) == [num |-> n]
JsonObj(fields) == [obj |-> fields]
Malformed == [malformed |-> TRUE]

IsJsonStr(v) == "str" \in DOMAIN v
IsJsonObj(v) == "obj" \in DOMAIN v

\* serde: a required String field
has_string(fields, key) == key \in DOMAIN fields /\ IsJsonStr(fields[key])

\* serde: an Option<String> field with #[serde(default)]: absent, null or a string
has_optional_string(fields, key) ==
    key \in DOMAIN fields => (fields[key] = JsonNull \/ IsJsonStr(fields[key]))

optional_string(fields, key) ==
    IF key \in DOMAIN fields /\ IsJsonStr(fields[key]) THEN Some(fields[key].str) ELSE None

\* serde_json::from_str::<WatchdogTaskEnvelope>
from_str(raw_task) ==
    IF ~IsJsonObj(raw_task) THEN Err("InvalidInput")
    ELSE IF ~(/\ "schema_version" \in DOMAIN raw_task.obj
              /\ "num" \in DOMAIN raw_task.obj.schema_version
              /\ raw_task.obj.schema_version.num >= 0    \* a u32
              /\ has_string(raw_task.obj, "task_id")
              /\ has_string(raw_task.obj, "type")
              /\ has_optional_string(raw_task.obj, "source")
              /\ has_optional_string(raw_task.obj, "created_at")
              /\ "payload" \in DOMAIN raw_task.obj
              /\ IsJsonObj(raw_task.obj.payload))
    THEN Err("InvalidInput")
    ELSE IF ~(/\ has_string(raw_task.obj.payload.obj, "task_type")
              /\ has_optional_string(raw_task.obj.payload.obj, "source_key")
              /\ has_string(raw_task.obj.payload.obj, "project")
              /\ has_string(raw_task.obj.payload.obj, "plugin")
              /\ has_optional_string(raw_task.obj.payload.obj, "trigger"))
    THEN Err("InvalidInput")
    ELSE Ok([schema_version |-> raw_task.obj.schema_version.num,
             task_id |-> raw_task.obj.task_id.str,
             task_kind |-> raw_task.obj.type.str,
             source |-> optional_string(raw_task.obj, "source"),
             created_at |-> optional_string(raw_task.obj, "created_at"),
             payload |-> [task_type |-> raw_task.obj.payload.obj.task_type.str,
                          source_key |-> optional_string(raw_task.obj.payload.obj, "source_key"),
                          project |-> raw_task.obj.payload.obj.project.str,
                          plugin |-> raw_task.obj.payload.obj.plugin.str,
                          trigger |-> optional_string(raw_task.obj.payload.obj, "trigger")]])

\* the checks of parse_watchdog_task on the deserialized envelope
check_watchdog_task(task) ==
    IF task.schema_version # 1 THEN Err("InvalidInput")
    ELSE IF task.task_kind # "watchdog_poll" THEN Err("InvalidInput")
    ELSE IF Trim(task.payload.plugin) = "" THEN Err("InvalidInput")
    ELSE IF Trim(task.payload.project) = "" THEN Err("InvalidInput")
    ELSE IF Trim(task.payload.task_type) = "" THEN Err("InvalidInput")
    ELSE Ok(task)

checked(parsed) == IF IsOk(parsed) THEN check_watchdog_task(parsed.ok) ELSE parsed

parse_watchdog_task(raw_task) == checked(from_str(raw_task))

\* PluginDirective
RequestCapability(id, project, reason, input, risk_tier) ==
    [action |-> "request_capability", capability |-> [id |-> id, project |-> project],
     reason |-> reason, input |-> input, risk_tier |-> risk_tier]
EnqueueTask(task_type, project, reason, payload) ==
    [action |-> "enqueue_task", task_type |-> task_type, project |-> project,
     reason |-> reason, payload |-> payload]
Noop == [action |-> "noop"]

unwrap_or(option, default) == IF IsSome(option) THEN Unwrap(option) ELSE default

EventEnvelope(event_id, event_type, task_id, request_id, project, payload) ==
    [event_id |-> event_id, event_type |-> event_type, task_id |-> task_id,
     request_id |-> request_id, project |-> project, payload |-> payload]

\* the event handle_watchdog_task hands to the runner, now being the value of now_unix()
task_received(task, now) ==
    EventEnvelope("evt-" \o task.task_id \o "-" \o ToString(now), "task.received",
                  Some(task.task_id), None, Some(task.payload.project),
                  [task_type |-> task.payload.task_type,
                   source_key |-> task.payload.source_key,
                   trigger |-> task.payload.trigger])

\* the ActionRequest built for a RequestCapability directive, idx counting from 0
capability_request(task, idx, directive) ==
    [request_id |-> task.task_id \o "-" \o ToString(idx) \o "-cap",
     risk_tier |-> unwrap_or(directive.risk_tier, "safe"),
     input |-> directive.input,
     capability |-> [plugin |-> task.payload.plugin,
                     project |-> unwrap_or(directive.capability.project, task.payload.project),
                     capability |-> directive.capability.id,
                     scope |-> <<"project">>,
                     reason |-> IF Trim(directive.reason) = ""
                                THEN "plugin requested capability"
                                ELSE directive.reason]]

\* the ActionRequest built for an EnqueueTask directive
enqueue_request(task, idx, directive) ==
    [request_id |-> task.task_id \o "-" \o ToString(idx) \o "-enqueue",
     risk_tier |-> "sensitive",
     input |-> {<<"task_type", directive.task_type>>, <<"origin_task_id", task.task_id>>},
     capability |-> [plugin |-> task.payload.plugin,
                     project |-> unwrap_or(directive.project, task.payload.project),
                     capability |-> "task.enqueue",
                     scope |-> <<"project">>,
                     reason |-> unwrap_or(directive.reason,
                                          "plugin enqueue request for " \o directive.task_type)]]

build_enqueued_task(origin, sequence, task_type, project, payload, now) ==
    [schema_version |-> 1,
     task_id |-> origin.task_id \o "-followup-" \o ToString(sequence) \o "-" \o ToString(now),
     type |-> task_type,
     source |-> "plugin",
     created_at_unix |-> now,
     payload |-> [project |-> project, plugin |-> origin.payload.plugin,
                  task_type |-> task_type, origin_task_id |-> origin.task_id,
                  data |-> payload]]

\* serde_json::to_string: the text of a JSON value, from which the value reads back
to_string(value) == [serialized |-> value]

\* the w-th TaskIngress::write_task_payload call of a run: accepted or failed
WriteEffect(payload, w, env) ==
    [kind |-> "write", payload |-> payload, accepted |-> w # env.ingress_fail_at]

WritesOf(effects) == SelectSeq(effects, LAMBDA e : e.kind = "write")

enqueue_allowed_AuditFirst(task, idx, directive, request, env, n, w, now) ==
    Run(<<AuditEffect(
              AuditRecord("task.enqueued", Some(request.request_id), Some(task.task_id),
                          Some(request.capability.project),
                          {<<"plugin", task.payload.plugin>>,
                           <<"task_type", directive.task_type>>,
                           <<"origin_task_id", task.task_id>>}),
              n + 2, env),
          WriteEffect(
              to_string(build_enqueued_task(task, idx, directive.task_type,
                                            request.capability.project,
                                            directive.payload, now)),
              w + 1, env)>>,
        Ok(<<ActionOutcome(request.request_id, "Executed", "task_enqueued",
                           {<<"task_type", directive.task_type>>,
                            <<"project", request.capability.project>>})>>))

\* the Allow arm of an EnqueueTask directive: the ingress write, then task.enqueued
enqueue_allowed(task, idx, directive, request, env, n, w, now) ==
    LET write == WriteEffect(
                     to_string(build_enqueued_task(task, idx, directive.task_type,
                                                   request.capability.project,
                                                   directive.payload, now)),
                     w + 1, env)
        audit == AuditEffect(
                     AuditRecord("task.enqueued", Some(request.request_id), Some(task.task_id),
                                 Some(request.capability.project),
                                 {<<"plugin", task.payload.plugin>>,
                                  <<"task_type", directive.task_type>>,
                                  <<"origin_task_id", task.task_id>>}),
                     n + 2, env)
    IN  IF ~write.accepted THEN Run(<<write>>, Err("Execution"))
        ELSE IF ~audit.accepted THEN Run(<<write, audit>>, Err("Audit"))
        ELSE Run(<<write, audit>>,
                 Ok(<<ActionOutcome(request.request_id, "Executed", "task_enqueued",
                                    {<<"task_type", directive.task_type>>,
                                     <<"project", request.capability.project>>})>>))

\* a run continued by another: the effects of both, the result of the second
Then(effects, run) == Run(effects \o run.effects, run.result)

enqueue_decided_WriteUnlessApproval(task, idx, directive, request, env, n, w, now, policy_run) ==
    IF ~IsOk(policy_run.result) THEN policy_run
    ELSE IF policy_run.result.ok.decision = "require_approval"
    THEN Run(policy_run.effects,
             Ok(<<ActionOutcome(request.request_id, "ApprovalPending",
                                policy_run.result.ok.reason_code, JsonNull)>>))
    ELSE Then(policy_run.effects, enqueue_allowed(task, idx, directive, request, env, n, w, now))

\* the match on evaluate_policy for an EnqueueTask directive
enqueue_decided(task, idx, directive, request, env, n, w, now, policy_run) ==
    IF ~IsOk(policy_run.result) THEN policy_run
    ELSE IF policy_run.result.ok.decision = "deny"
    THEN Run(policy_run.effects,
             Ok(<<ActionOutcome(request.request_id, "Blocked",
                                policy_run.result.ok.reason_code, JsonNull)>>))
    ELSE IF policy_run.result.ok.decision = "require_approval"
    THEN Run(policy_run.effects,
             Ok(<<ActionOutcome(request.request_id, "ApprovalPending",
                                policy_run.result.ok.reason_code, JsonNull)>>))
    ELSE Then(policy_run.effects, enqueue_allowed(task, idx, directive, request, env, n, w, now))

\* outcomes.push(self.handle_action(request)?)
pushed(action_run) ==
    IF IsOk(action_run.result) THEN Run(action_run.effects, Ok(<<action_run.result.ok>>))
    ELSE action_run

\* one iteration of the loop over the directives: its effects and the outcomes it
\* pushes, n audit records and w ingress writes of the run preceding it
directive_run(grants, flag, task, idx, directive, env, n, w, now) ==
    IF directive.action = "request_capability"
    THEN pushed(handle_action_run(grants, flag, capability_request(task, idx, directive), env, n))
    ELSE IF directive.action = "enqueue_task"
    THEN IF Trim(directive.task_type) = "" THEN Run(<<>>, Err("InvalidInput"))
         ELSE enqueue_decided(task, idx, directive, enqueue_request(task, idx, directive),
                              env, n, w, now,
                              evaluate_policy(grants, flag,
                                              enqueue_request(task, idx, directive), env, n))
    ELSE LET audit == AuditEffect(
                          AuditRecord("plugin.noop", None, Some(task.task_id),
                                      Some(task.payload.project),
                                      {<<"plugin", task.payload.plugin>>}),
                          n + 1, env)
         IN  IF audit.accepted THEN Run(<<audit>>, Ok(<<>>)) ELSE Run(<<audit>>, Err("Audit"))

\* the effects of directive idx, marked with it
OfDirective(effects, idx) ==
    [i \in 1..Len(effects) |-> [directive |-> idx] @@ effects[i]]

RECURSIVE for_directives(_, _, _, _, _, _, _, _, _)
\* the loop from position at: ? returns at the first error, keeping the effects made
for_directives(grants, flag, task, directives, at, env, now, effects, outcomes) ==
    IF at > Len(directives) THEN Run(effects, Ok(outcomes))
    ELSE LET step == directive_run(grants, flag, task, at - 1, directives[at], env,
                                   Len(AuditsOf(effects)), Len(WritesOf(effects)), now)
         IN  IF ~IsOk(step.result)
             THEN Run(effects \o OfDirective(step.effects, at - 1), step.result)
             ELSE for_directives(grants, flag, task, directives, at + 1, env, now,
                                 effects \o OfDirective(step.effects, at - 1),
                                 outcomes \o step.result.ok)

\* runner.dispatch_event(&task.payload.plugin, &event)
DispatchEffect(task, now) ==
    [kind |-> "dispatch", directive |-> -1, plugin |-> task.payload.plugin,
     event |-> task_received(task, now)]

\* handle_watchdog_task after the task parsed; dispatched is what the runner returns
dispatch_and_route(grants, flag, task, dispatched, env, now) ==
    IF ~IsOk(dispatched) THEN Run(<<DispatchEffect(task, now)>>, dispatched)
    ELSE for_directives(grants, flag, task, dispatched.ok, 1, env, now,
                        <<DispatchEffect(task, now)>>, <<>>)

parsed_and_routed(grants, flag, parsed, dispatched, env, now) ==
    IF ~IsOk(parsed) THEN Run(<<>>, parsed)
    ELSE dispatch_and_route(grants, flag, parsed.ok, dispatched, env, now)

handle_watchdog_task_run(grants, flag, raw_task, dispatched, env, now) ==
    parsed_and_routed(grants, flag, parse_watchdog_task(raw_task), dispatched, env, now)

(***************************************************************************)
(* Calls into the runtime. The policy engine is fixed at construction; a   *)
(* call runs to completion, appends the records the sink saw to sink and   *)
(* leaves its inputs, effects and result in call until the caller takes    *)
(* the result.                                                             *)
(***************************************************************************)
ActionRequest(request_id, risk_tier, plugin, project, capability, scope, input) ==
    [request_id |-> request_id, risk_tier |-> risk_tier, input |-> input,
     capability |-> [plugin |-> plugin, project |-> project, capability |-> capability,
                     scope |-> scope, reason |-> "unit test"]]

CapabilityManifest(schema_version, plugin, capabilities) ==
    [schema_version |-> schema_version, plugin |-> plugin, capabilities |-> capabilities]

NoManifest == CapabilityManifest(0, "", <<>>)

RequestScopes ==
    { <<>>, <<"project">>, <<"tenant">>, <<"project", "tenant">>, <<"project", "project">> }

UrlInput == {<<"url", "https://example.com">>}

PluginRequests ==
    { ActionRequest("req-repo.read", "safe", "example.safe-github", "demo", "repo.read", sc, UrlInput) :
        sc \in RequestScopes }
    \cup { ActionRequest("req-" \o c, t, "example.safe-github", j, c, <<"project">>, UrlInput) :
             c \in {"repo.read", "repo.delete"}, t \in {"sensitive", "destructive"},
             j \in {"demo", "other"} }
    \cup { ActionRequest("req-" \o c, "safe", "example.safe-github", "demo", c, <<"project">>, UrlInput) :
             c \in {"stagehand.observe_url", "command.run", "repo.delete"} }
    \cup { ActionRequest("req-invalid", "safe", " ", "demo", "repo.read", <<"project">>, UrlInput),
           ActionRequest("req-invalid", "safe", "example.safe-github", "demo", "", <<"project">>, UrlInput) }

StagehandRequests ==
    { ActionRequest("req-stagehand", "safe", "stagehand", "demo", "stagehand.observe_url",
                    <<"example.com">>, {<<"url", u>>}) :
        u \in {"https://example.com/path", "https://evil.org/", "example.com"} }
    \cup { ActionRequest("req-stagehand", "safe", "stagehand", "demo", "stagehand.observe_domain",
                         <<"example.com">>, {<<"domain", "example.com">>}) }
    \cup { ActionRequest("req-stagehand", "safe", "stagehand", "demo", "command.run",
                         <<"cat">>, {<<"command", c>>}) :
             c \in {"cat /w/a.txt", "cat /etc/passwd"} }
    \cup { ActionRequest("req-stagehand", t, "stagehand", "demo", c, <<"project">>, {}) :
             c \in {"stagehand.superpower", "stagehand.login", "repo.read"},
             t \in {"safe", "destructive"} }

PluginManifests ==
    { CapabilityManifest(v, "example.safe-github",
                         <<DelegationCapability("repo.read", <<"project">>)>>) : v \in {1, 2} }
    \cup { CapabilityManifest(1, "example.safe-github",
                              <<DelegationCapability("repo.read", <<>>),
                                DelegationCapability("repo.delete", <<"tenant">>),
                                DelegationCapability("repo.read", <<"tenant", "project">>)>>),
           CapabilityManifest(1, "example.safe-github",
                              <<DelegationCapability("stagehand.observe_url", <<"project">>),
                                DelegationCapability("command.run", <<"project">>),
                                DelegationCapability("repo.delete", <<"project">>)>>),
           CapabilityManifest(2, "other.plugin", <<>>),
           CapabilityManifest(1, "other.plugin",
                              <<DelegationCapability("repo.read", <<"project">>)>>) }

StagehandCapabilities ==
    << DelegationCapability("stagehand.observe_url", <<"example.com">>),
       DelegationCapability("stagehand.observe_domain", <<"example.com">>),
       DelegationCapability("command.run", <<"cat">>),
       DelegationCapability("workspace.read", <<"/w">>),
       DelegationCapability("stagehand.superpower", <<"project">>),
       DelegationCapability("stagehand.login", <<"project">>),
       DelegationCapability("repo.read", <<"project">>) >>

StagehandManifests ==
    { CapabilityManifest(1, "stagehand", StagehandCapabilities),
      CapabilityManifest(1, "stagehand",
                         <<DelegationCapability("stagehand.enabled", <<>>)>> \o StagehandCapabilities),
      CapabilityManifest(1, "stagehand",
                         <<DelegationCapability("stagehand.enabled", <<>>),
                           DelegationCapability("stagehand.observe_domain", <<"example.com">>)>>),
      CapabilityManifest(2, "stagehand", <<>>) }

Requests == PluginRequests \cup StagehandRequests

\* the request and manifest pairs handed to handle_action_with_manifest
ManifestCalls ==
    (PluginRequests \X PluginManifests)
    \cup (StagehandRequests \X StagehandManifests)
    \cup ({r \in Requests : r.capability.capability = "repo.read"
                            /\ r.capability.scope = <<"project">>}
          \X (PluginManifests \cup StagehandManifests))

RuntimeGrantSets ==
    { {},
      {<<"example.safe-github", "*", "repo.read">>},
      {<<"example.safe-github", "demo", "repo.read">>,
       <<"example.safe-github", "demo", "repo.delete">>,
       <<"example.safe-github", "demo", "stagehand.observe_url">>,
       <<"stagehand", "demo", "stagehand.observe_url">>,
       <<"stagehand", "demo", "stagehand.observe_domain">>,
       <<"stagehand", "demo", "stagehand.superpower">>,
       <<"stagehand", "demo", "stagehand.login">>,
       <<"stagehand", "*", "command.run">>,
       <<"private.ops-watchdog", "*", "task.enqueue">>,
       <<"private.ops-watchdog", "private", "monitoring.sentry.read">>,
       <<"private.ops-watchdog", "other", "vcs.pr.merge">>} }

\* DryRunExecutor returns a value, the tests' FailingExecutor an error
Executors == {"DryRunExecutor", "FailingExecutor"}

\* the collaborators of the runtime: its executor, and its sink, which accepts every
\* record (NoopAuditSink and the tests' MemoryAuditSink both do): no record() call fails
Collaborators == [exec_ok |-> executor = "DryRunExecutor", audit_fail_at |-> 0]

Init ==
    /\ allowed \in RuntimeGrantSets
    /\ require_approval_for_destructive \in BOOLEAN
    /\ executor \in Executors
    /\ sink = <<>>
    /\ ingress = <<>>
    /\ call = NoCall
    /\ IdleStagehand
    /\ IdleDisk
    /\ arg = NoRet
    /\ ret = NoRet

RuntimeFrame ==
    UNCHANGED <<allowed, require_approval_for_destructive, executor, stagehand, built_from, arg, ret,
                disk>>

\* what the sink holds after a run: every record it saw, with whether it accepted it
SinkAfter(run) ==
    sink \o [i \in 1..Len(AuditsOf(run.effects)) |->
                [record |-> AuditsOf(run.effects)[i].record,
                 accepted |-> AuditsOf(run.effects)[i].accepted]]

CallRecord(op, request, manifest, run) ==
    [op |-> op, request |-> request, manifest |-> manifest,
     effects |-> run.effects, result |-> run.result, sink_before |-> Len(sink)]

handle_action ==
    /\ call = NoCall
    /\ Len(sink) < MaxSink
    /\ \E request \in Requests :
          \E run \in {handle_action_run(allowed, require_approval_for_destructive, request,
                                        Collaborators, 0)} :
              /\ sink' = SinkAfter(run)
              /\ call' = CallRecord("handle_action", request, NoManifest, run)
    /\ UNCHANGED ingress
    /\ RuntimeFrame

handle_action_with_manifest ==
    /\ call = NoCall
    /\ Len(sink) < MaxSink
    /\ \E rm \in ManifestCalls :
          \E run \in {handle_action_with_manifest_run(
                          allowed, require_approval_for_destructive, rm[1], rm[2], Collaborators)} :
              /\ sink' = SinkAfter(run)
              /\ call' = CallRecord("handle_action_with_manifest", rm[1], rm[2], run)
    /\ UNCHANGED ingress
    /\ RuntimeFrame

TaskPayloadFields(task_type, project, plugin) ==
    [task_type |-> JsonStr(task_type), project |-> JsonStr(project), plugin |-> JsonStr(plugin)]

WatchdogTask(schema_version, type, payload) ==
    JsonObj([schema_version |-> JsonNum(schema_version), task_id |-> JsonStr("watchdog-1"),
             type |-> JsonStr(type), source |-> JsonStr("keepalive"),
             created_at |-> JsonStr("2026-02-25T00:00:00Z"), payload |-> JsonObj(payload)])

WatchdogPayload == TaskPayloadFields("watchdog.sentry.poll", "private", "private.ops-watchdog")

\* the task of the tests, with and without its optional payload fields
PolledTasks ==
    { WatchdogTask(1, "watchdog_poll", WatchdogPayload),
      WatchdogTask(1, "watchdog_poll",
                   WatchdogPayload @@ [source_key |-> JsonStr("sentry-check"),
                                       trigger |-> JsonStr("feature_gate")]) }

RawTasks ==
    PolledTasks
    \cup { WatchdogTask(1, "watchdog_poll", WatchdogPayload @@ optional) :
             optional \in { [source_key |-> JsonStr(" ")], [trigger |-> JsonStr("")],
                            [source_key |-> JsonNull], [trigger |-> JsonNum(7)] } }
    \cup { WatchdogTask(v, "watchdog_poll", WatchdogPayload) : v \in {-1, 0, 2} }
    \cup { WatchdogTask(1, "watchdog", WatchdogPayload) }
    \cup { WatchdogTask(1, "watchdog_poll", TaskPayloadFields(task_type, project, plugin)) :
             task_type \in {"watchdog.sentry.poll", " "}, project \in {"private", ""},
             plugin \in {"private.ops-watchdog", "  "} }
    \cup { WatchdogTask(1, "watchdog_poll",
                        [task_type |-> JsonStr("watchdog.sentry.poll"),
                         project |-> JsonStr("private")]),
           JsonObj([schema_version |-> JsonStr("1"), task_id |-> JsonStr("watchdog-1"),
                    type |-> JsonStr("watchdog_poll"), payload |-> JsonObj(WatchdogPayload)]),
           JsonObj([schema_version |-> JsonNum(1), task_id |-> JsonStr("watchdog-1"),
                    type |-> JsonStr("watchdog_poll"), payload |-> JsonStr("poll")]),
           JsonObj([schema_version |-> JsonNum(1), type |-> JsonStr("watchdog_poll"),
                    payload |-> JsonObj(WatchdogPayload)]),
           Malformed }

ReadSentry ==
    RequestCapability("monitoring.sentry.read", None, "poll sentry", {<<"sample", "true">>},
                      Some("safe"))
ReadDefaults == RequestCapability("monitoring.sentry.read", None, " ", {}, None)
MergeElsewhere == RequestCapability("vcs.pr.merge", Some("other"), "", {}, Some("destructive"))
BlankCapability == RequestCapability(" ", None, "", {}, None)
EnqueueRemediation ==
    EnqueueTask("watchdog.remediation.dispatch", None, Some("queue remediation"),
                {<<"kind", "critical_issue">>})
EnqueueElsewhere == EnqueueTask("watchdog.report", Some("other"), None, {})
EnqueueBlank == EnqueueTask(" ", None, None, {})

DirectiveLists ==
    { <<>>, <<Noop>>, <<ReadSentry>>, <<ReadDefaults>>, <<MergeElsewhere>>, <<BlankCapability>>,
      <<EnqueueRemediation>>, <<EnqueueElsewhere>>, <<EnqueueBlank>>,
      <<Noop, EnqueueRemediation>>, <<EnqueueRemediation, Noop>>,
      <<EnqueueRemediation, EnqueueElsewhere>>, <<EnqueueRemediation, BlankCapability>>,
      <<Noop, EnqueueBlank>>, <<EnqueueRemediation, ReadSentry>>,
      <<MergeElsewhere, EnqueueRemediation>>, <<ReadSentry, Noop, EnqueueRemediation>> }

\* what the runner returns: the directives of the plugin, or a plugin failure
Dispatched == {Ok(directives) : directives \in DirectiveLists} \cup {Err("Plugin")}

\* the raw task and runner pairs handed to handle_watchdog_task
WatchdogCalls ==
    (PolledTasks \X Dispatched)
    \cup (RawTasks \X {Ok(<<Noop>>), Ok(<<EnqueueRemediation>>)})

\* values of now_unix()
Clock == {1772000000, 1772000001}

\* the write_task_payload call of a run that fails (0: none): StdoutTaskIngress and the
\* tests' MemoryIngress accept every payload, BashTaskIngressAdapter fails with its script
IngressFailures == 0..2

WatchdogCollaborators(ingress_fail_at) ==
    [exec_ok |-> executor = "DryRunExecutor", audit_fail_at |-> 0,
     ingress_fail_at |-> ingress_fail_at]

IngressAfter(run) ==
    ingress \o [i \in 1..Len(WritesOf(run.effects)) |->
                   [payload |-> WritesOf(run.effects)[i].payload,
                    accepted |-> WritesOf(run.effects)[i].accepted]]

WatchdogCallRecord(raw_task, dispatched, run) ==
    [op |-> "handle_watchdog_task", raw_task |-> raw_task, dispatched |-> dispatched,
     effects |-> run.effects, result |-> run.result,
     sink_before |-> Len(sink), ingress_before |-> Len(ingress)]

handle_watchdog_task ==
    /\ call = NoCall
    /\ Len(sink) < MaxSink
    /\ \E rd \in WatchdogCalls, ingress_fail_at \in IngressFailures, now \in Clock :
          \E run \in {handle_watchdog_task_run(
                          allowed, require_approval_for_destructive, rd[1], rd[2],
                          WatchdogCollaborators(ingress_fail_at), now)} :
              /\ sink' = SinkAfter(run)
              /\ ingress' = IngressAfter(run)
              /\ call' = WatchdogCallRecord(rd[1], rd[2], run)
    /\ RuntimeFrame

\* the caller takes the result of the call
Return ==
    /\ call # NoCall
    /\ call' = NoCall
    /\ UNCHANGED <<sink, ingress>>
    /\ RuntimeFrame

Next ==
    \/ handle_action
    \/ handle_action_with_manifest
    \/ handle_watchdog_task
    \/ Return

Spec == Init /\ [][Next]_vars


(***************************************************************************)
(* Claims about the orchestrator runtime.                                  *)
(***************************************************************************)
\* the event types of the records the sink saw during the call, in order
CallEvents ==
    [i \in 1..(Len(sink) - call.sink_before) |-> sink[call.sink_before + i].record.event_type]

\* the effects of one kind in the call, in order
EffectsOfKind(kind) == SelectSeq(call.effects, LAMBDA e : e.kind = kind)

\* the positions of the effects of one kind in the call
PositionsOfKind(kind) == {i \in DOMAIN call.effects : call.effects[i].kind = kind}

ValidCall(op) == call.op = op /\ IsOk(validate_capability(call.request.capability))

C1_Outcome(status, detail, output) ==
    Ok(ActionOutcome(call.request.request_id, status, detail, output))

C1_MapsDecision ==
    ValidCall("handle_action") =>
        LET decisions == EffectsOfKind("decide")
            executions == EffectsOfKind("execute")
        IN  /\ Len(decisions) = 1
            /\ decisions[1].request = call.request
            /\ decisions[1].decision = decide(allowed, require_approval_for_destructive, call.request)
            /\ decisions[1].decision.decision = "deny" =>
                  /\ call.result = C1_Outcome("Blocked", decisions[1].decision.reason_code, JsonNull)
                  /\ Len(executions) = 0
            /\ decisions[1].decision.decision = "require_approval" =>
                  /\ call.result = C1_Outcome("ApprovalPending", decisions[1].decision.reason_code,
                                              JsonNull)
                  /\ Len(executions) = 0
            /\ decisions[1].decision.decision = "allow" =>
                  /\ Len(executions) = 1
                  /\ executions[1].request = call.request
                  /\ IsSome(executions[1].returned) =>
                        call.result = C1_Outcome("Executed", "executed", Unwrap(executions[1].returned))

C1_ExecutorGated ==
    call # NoCall =>
        \A i \in PositionsOfKind("execute") :
            \E j \in PositionsOfKind("decide") :
                /\ j < i
                /\ call.effects[j].request = call.effects[i].request
                /\ call.effects[j].decision.decision = "allow"

\* C1: handle_action returns Blocked with the policy reason code and a null output on
\* Deny, ApprovalPending with the reason code and a null output on RequireApproval, and
\* on Allow invokes the executor and returns Executed, "executed" and the value the
\* executor returned; in every call the executor is invoked for a request only after
\* the policy engine returned Allow for that request.
C1_DecisionGatesExecution == C1_MapsDecision /\ C1_ExecutorGated

C1_Witness ==
    /\ call.op = "handle_action"
    /\ require_approval_for_destructive
    /\ call.request.risk_tier = "sensitive"
    /\ IsOk(call.result)
    /\ call.result.ok.status = "Executed"
    /\ call.result.ok.output = DryRunExecutor(call.request)

\* C3: a handle_action call that passes validation shows the sink exactly
\* [policy.decision] on Deny and on RequireApproval and exactly [policy.decision,
\* action.executed] on Allow when the executor returns; when the executor fails the
\* call returns the execution error and the sink saw exactly [policy.decision].
C3_AuditSequence ==
    ValidCall("handle_action") =>
        LET decision == decide(allowed, require_approval_for_destructive, call.request)
            executions == EffectsOfKind("execute")
            returns == Len(executions) = 1 /\ IsSome(executions[1].returned)
            fails == Len(executions) = 1 /\ ~IsSome(executions[1].returned)
        IN  /\ decision.decision \in {"deny", "require_approval"} =>
                  CallEvents = <<"policy.decision">>
            /\ (decision.decision = "allow" /\ returns) =>
                  CallEvents = <<"policy.decision", "action.executed">>
            /\ decision.decision = "allow" => (returns \/ fails)
            /\ fails =>
                  /\ call.result = Err("Execution")
                  /\ CallEvents = <<"policy.decision">>

C3_Witness ==
    /\ call.op = "handle_action"
    /\ call.result = Err("Execution")
    /\ Len(EffectsOfKind("execute")) = 1
    /\ CallEvents = <<"policy.decision">>

C4_PassesManifest ==
    /\ ValidCall("handle_action_with_manifest")
    /\ call.manifest.schema_version = 1
    /\ ~IsSome(manifest_denial_reason(call.request, call.manifest))

\* position of the audit effect of an event type in the call, 0 when there is none
C4_Recorded(event_type) ==
    LET at == {i \in PositionsOfKind("audit") : call.effects[i].record.event_type = event_type}
    IN  IF at = {} THEN 0 ELSE CHOOSE i \in at : \A j \in at : i <= j

\* C4: when the request passes the manifest checks, governance.manifest.validated is
\* recorded before the policy decides and before policy.decision, and
\* governance.capability.used after action.executed and only when the outcome is
\* Executed: the sink sees [governance.manifest.validated, policy.decision,
\* action.executed, governance.capability.used] on execution and
\* [governance.manifest.validated, policy.decision] on Deny and on RequireApproval.
C4_ManifestAuditOrder ==
    C4_PassesManifest =>
        LET decision == decide(allowed, require_approval_for_destructive, call.request)
            executed == IsOk(call.result) /\ call.result.ok.status = "Executed"
        IN  /\ C4_Recorded("governance.manifest.validated") = 1
            /\ \A i \in PositionsOfKind("decide") \cup PositionsOfKind("execute") : 1 < i
            /\ C4_Recorded("policy.decision") > 1
            /\ C4_Recorded("governance.capability.used") # 0 =>
                  /\ executed
                  /\ C4_Recorded("action.executed") # 0
                  /\ C4_Recorded("action.executed") < C4_Recorded("governance.capability.used")
            /\ executed =>
                  CallEvents = <<"governance.manifest.validated", "policy.decision",
                                 "action.executed", "governance.capability.used">>
            /\ decision.decision \in {"deny", "require_approval"} =>
                  CallEvents = <<"governance.manifest.validated", "policy.decision">>

C4_Witness ==
    /\ call.op = "handle_action_with_manifest"
    /\ IsOk(call.result)
    /\ call.result.ok.status = "Executed"
    /\ Len(CallEvents) = 4
    /\ CallEvents[4] = "governance.capability.used"


C5_Permits(requested_scope, granted_scope) ==
    IF requested_scope = <<>> THEN granted_scope = <<>>
    ELSE \A requested \in Range(requested_scope) : requested \in Range(granted_scope)

C5_ScopeGate ==
    call.op = "handle_action_with_manifest" =>
        \A i \in DOMAIN call.manifest.capabilities :
            manifest_scope_permits(call.request.capability.scope,
                                   call.manifest.capabilities[i].scope)
            <=> C5_Permits(call.request.capability.scope, call.manifest.capabilities[i].scope)

C5_Candidates ==
    {i \in DOMAIN call.manifest.capabilities :
        call.manifest.capabilities[i].id = call.request.capability.capability}

C5_NoCandidatePermits ==
    \A i \in C5_Candidates :
        ~C5_Permits(call.request.capability.scope, call.manifest.capabilities[i].scope)

C5_BlockedOnScope ==
    /\ IsOk(call.result)
    /\ call.result.ok.status = "Blocked"
    /\ call.result.ok.detail = "manifest_scope_not_granted"

\* the request reaches the scope gate
C5_ReachesScopeGate ==
    /\ IsOk(validate_capability(call.request.capability))
    /\ call.manifest.schema_version = 1
    /\ call.manifest.plugin = call.request.capability.plugin
    /\ C5_Candidates # {}

\* C5 as stated: the scope gate holds iff the requested scope is contained in the
\* granted one, an empty requested scope only in an empty granted one, and any request
\* is blocked with manifest_scope_not_granted iff no capability with its id permits it.
C5_BlockedIffNoCandidatePermits ==
    call.op = "handle_action_with_manifest" =>
        /\ C5_ScopeGate
        /\ C5_BlockedOnScope <=> C5_NoCandidatePermits

\* C5: the scope gate holds iff the requested scope is contained in the granted one,
\* an empty requested scope only in an empty granted one; a valid request whose
\* manifest has schema version 1, names the request's plugin and has a capability with
\* the requested id is blocked with manifest_scope_not_granted iff none of those
\* capabilities permits its scope, and no other request is blocked with that code.
C5_ScopeGateBlocks ==
    call.op = "handle_action_with_manifest" =>
        /\ C5_ScopeGate
        /\ C5_BlockedOnScope => C5_ReachesScopeGate
        /\ C5_ReachesScopeGate => (C5_BlockedOnScope <=> C5_NoCandidatePermits)

C5_Witness ==
    /\ call.op = "handle_action_with_manifest"
    /\ call.request.capability.scope = <<>>
    /\ C5_Candidates # {}
    /\ C5_BlockedOnScope

C6_Capability == call.request.capability.capability

C6_IsStagehandCapability ==
    \/ C6_Capability \in {"browser.observe", "workspace.read", "command.run"}
    \/ StartsWith(C6_Capability, "stagehand.")

C6_Action == stagehand_action_from_capability(C6_Capability, call.request.input)

\* the reason code with which the stagehand policy derived from the manifest denies
\* the mapped action of the stagehand plugin, None when there is no such denial
C6_DerivedDenial ==
    IF call.request.capability.plugin = "stagehand" /\ IsSome(C6_Action)
    THEN denial_of(evaluate(stagehand_policy_from_envelope(
                                [plugin |-> call.manifest.plugin, trust_level |-> "caution",
                                 permissions |-> call.manifest.capabilities]),
                            Unwrap(C6_Action)))
    ELSE None

\* the checks of the manifest stage in the order stated: <<fails, reason code>>
C6_Checks(derived) ==
    << <<call.manifest.schema_version # 1, "manifest_schema_version_unsupported">>,
       <<call.manifest.plugin # call.request.capability.plugin, "manifest_plugin_mismatch">>,
       <<C5_Candidates = {}, "manifest_capability_not_granted">>,
       <<C5_NoCandidatePermits, "manifest_scope_not_granted">>,
       <<C6_IsStagehandCapability /\ call.request.capability.plugin # "stagehand",
         "plugin_permission_denied">>,
       <<call.request.capability.plugin = "stagehand" /\ ~IsSome(C6_Action)
         /\ StartsWith(C6_Capability, "stagehand."),
         "manifest_stagehand_capability_unknown">>,
       <<IsSome(derived), IF IsSome(derived) THEN Unwrap(derived) ELSE "">> >>

C6_Failing(checks) == {k \in DOMAIN checks : checks[k][1]}

C6_First(failing) == CHOOSE k \in failing : \A other \in failing : k <= other

C6_BlocksOnFirst(checks, failing) ==
    IF failing # {}
    THEN /\ call.result = C1_Outcome("Blocked", checks[C6_First(failing)][2], JsonNull)
         /\ CallEvents = <<"governance.manifest.denied">>
    ELSE /\ Len(CallEvents) >= 1
         /\ CallEvents[1] = "governance.manifest.validated"
         /\ \A i \in DOMAIN CallEvents : CallEvents[i] # "governance.manifest.denied"
         /\ Len(EffectsOfKind("decide")) = 1

C6_BlocksOn(checks) == C6_BlocksOnFirst(checks, C6_Failing(checks))

\* C6: handle_action_with_manifest blocks a valid request with the reason code of the
\* first failing check in the order schema version, plugin, capability id, scope,
\* stagehand capability of another plugin, unmapped stagehand.* id, derived stagehand
\* policy, recording governance.manifest.denied; the request passes the manifest stage,
\* recording governance.manifest.validated, iff no check fails.
C6_FirstFailingCheckBlocks ==
    ValidCall("handle_action_with_manifest") => C6_BlocksOn(C6_Checks(C6_DerivedDenial))

C6_SeveralFail(failing) == Cardinality(failing) >= 2 /\ C6_First(failing) = 2

C6_Witness ==
    /\ ValidCall("handle_action_with_manifest")
    /\ C6_SeveralFail(C6_Failing(C6_Checks(C6_DerivedDenial)))
    /\ call.result = C1_Outcome("Blocked", "manifest_plugin_mismatch", JsonNull)


(***************************************************************************)
(* Claims about watchdog tasks.                                            *)
(***************************************************************************)
\* a handle_watchdog_task call that handed the event to the runner and got directives
Routed ==
    /\ call.op = "handle_watchdog_task"
    /\ Len(call.effects) >= 1
    /\ IsOk(call.dispatched)

Directives == call.dispatched.ok

\* the task the event was built from
RoutedTaskId == Unwrap(call.effects[1].event.task_id)
RoutedPlugin == call.effects[1].plugin
RoutedProject == Unwrap(call.effects[1].event.project)

\* the effects of the directive at a position of the list, in order
DirectiveEffects(at) == SelectSeq(call.effects, LAMBDA e : e.directive = at - 1)

KindOf(effects, kind) == SelectSeq(effects, LAMBDA e : e.kind = kind)

\* the loop got to the directive: the call returned outcomes or shows a later effect
Reached(at) ==
    \/ IsOk(call.result)
    \/ \E i \in DOMAIN call.effects : call.effects[i].directive >= at - 1

\* the outcomes of the call that carry a request id
OutcomesFor(request_id) ==
    SelectSeq(call.result.ok, LAMBDA outcome : outcome.request_id = request_id)

C11_Enqueues(at) ==
    /\ Directives[at].action = "enqueue_task"
    /\ Trim(Directives[at].task_type) # ""
    /\ Reached(at)

C11_PolicyStepOnly(directive, effects, request_id, project) ==
    LET decisions == KindOf(effects, "decide")
        writes == KindOf(effects, "write")
    IN  /\ Len(decisions) = 1
        /\ decisions[1].request.capability.capability = "task.enqueue"
        /\ decisions[1].request.capability.plugin = RoutedPlugin
        /\ decisions[1].request.risk_tier = "sensitive"
        /\ decisions[1].decision =
               decide(allowed, require_approval_for_destructive, decisions[1].request)
        /\ KindOf(effects, "execute") = <<>>
        /\ Len(writes) = (IF decisions[1].decision.decision = "allow" THEN 1 ELSE 0)
        /\ \A i \in DOMAIN writes :
              /\ writes[i].payload.serialized.schema_version = 1
              /\ writes[i].payload.serialized.type = directive.task_type
              /\ writes[i].payload.serialized.source = "plugin"
              /\ writes[i].payload.serialized.payload.origin_task_id = RoutedTaskId
        /\ IsOk(call.result) =>
              OutcomesFor(request_id) =
                  << IF decisions[1].decision.decision = "allow"
                     THEN ActionOutcome(request_id, "Executed", "task_enqueued",
                                        {<<"task_type", directive.task_type>>,
                                         <<"project", project>>})
                     ELSE ActionOutcome(request_id,
                                        IF decisions[1].decision.decision = "deny"
                                        THEN "Blocked" ELSE "ApprovalPending",
                                        decisions[1].decision.reason_code, JsonNull) >>

\* C11: for an EnqueueTask directive with a non-empty task_type handle_watchdog_task
\* runs the policy step alone, for task.enqueue of the task's plugin at risk tier
\* sensitive, and no executor; it calls write_task_payload once iff the decision is
\* Allow, with schema_version 1, type = task_type, source "plugin" and
\* payload.origin_task_id = the task id, and the outcome is Executed, task_enqueued,
\* {task_type, project}; on Deny and RequireApproval it writes nothing and the outcome
\* is Blocked or ApprovalPending with the reason code.
C11_EnqueueRunsPolicyOnly ==
    Routed =>
        \A at \in DOMAIN Directives :
            C11_Enqueues(at) =>
                C11_PolicyStepOnly(Directives[at], DirectiveEffects(at),
                                   RoutedTaskId \o "-" \o ToString(at - 1) \o "-enqueue",
                                   unwrap_or(Directives[at].project, RoutedProject))

C11_Witness ==
    /\ Routed
    /\ IsOk(call.result)
    /\ Len(call.result.ok) = 2
    /\ call.result.ok[1].status = "Executed"
    /\ call.result.ok[2].detail = "task_enqueued"
    /\ call.result.ok[2].output = {<<"task_type", "watchdog.report">>, <<"project", "other">>}
    /\ Len(ingress) = call.ingress_before + 2

\* the request id the loop gives the directive at a position
C12_RequestId(at) ==
    RoutedTaskId \o "-" \o ToString(at - 1) \o
        (IF Directives[at].action = "request_capability" THEN "-cap" ELSE "-enqueue")

\* an effect made for the directive at a position names that position
C12_Names(effect, at) ==
    IF effect.kind \in {"decide", "execute"}
    THEN effect.request.request_id = C12_RequestId(at)
    ELSE IF effect.kind = "write"
    THEN \E now \in Clock :
            effect.payload.serialized.task_id =
                RoutedTaskId \o "-followup-" \o ToString(at - 1) \o "-" \o ToString(now)
    ELSE IF effect.record.event_type = "plugin.noop"
    THEN Directives[at].action = "noop" /\ effect.record.request_id = None
    ELSE effect.record.request_id = Some(C12_RequestId(at))

\* the effects of the call come directive by directive, after the dispatch
C12_EffectsInOrder ==
    /\ call.effects[1].kind = "dispatch"
    /\ \A i \in 2..Len(call.effects) :
          /\ call.effects[i].directive + 1 \in DOMAIN Directives
          /\ call.effects[i - 1].directive <= call.effects[i].directive
          /\ C12_Names(call.effects[i], call.effects[i].directive + 1)

\* what the sink and the ingress received in the call is what the effects say, in order
C12_SeenInOrder ==
    /\ SubSeq(sink, call.sink_before + 1, Len(sink)) =
           [i \in 1..Len(AuditsOf(call.effects)) |->
               [record |-> AuditsOf(call.effects)[i].record,
                accepted |-> AuditsOf(call.effects)[i].accepted]]
    /\ SubSeq(ingress, call.ingress_before + 1, Len(ingress)) =
           [i \in 1..Len(WritesOf(call.effects)) |->
               [payload |-> WritesOf(call.effects)[i].payload,
                accepted |-> WritesOf(call.effects)[i].accepted]]

\* the positions of the directives that push an outcome, in order
C12_Pushing ==
    SelectSeq([at \in 1..Len(Directives) |-> at], LAMBDA at : Directives[at].action # "noop")

C12_OutcomesInOrder ==
    IsOk(call.result) =>
        /\ Len(call.result.ok) = Len(C12_Pushing)
        /\ \A k \in DOMAIN C12_Pushing :
              call.result.ok[k].request_id = C12_RequestId(C12_Pushing[k])

C12_NoopAuditsOnly(effects) ==
    /\ Len(effects) = 1
    /\ effects[1].kind = "audit"
    /\ effects[1].record.event_type = "plugin.noop"

C12_WriteBeforeEnqueuedAudit(effects) ==
    \A j \in DOMAIN effects :
        (effects[j].kind = "audit" /\ effects[j].record.event_type = "task.enqueued") =>
            \E i \in 1..(j - 1) : effects[i].kind = "write" /\ effects[i].accepted

\* C12: handle_watchdog_task processes the directives strictly in the order the
\* runner returned them: every effect of directive i (policy decision, audit record,
\* executor call, ingress write) comes before any effect of directive i+1, the
\* outcomes are in directive order, a Noop gives one audit record and no outcome, and
\* within an enqueue the ingress write comes before the task.enqueued audit record.
C12_DirectivesInOrder ==
    Routed =>
        /\ C12_EffectsInOrder
        /\ C12_SeenInOrder
        /\ C12_OutcomesInOrder
        /\ \A at \in DOMAIN Directives :
              /\ (Directives[at].action = "noop" /\ Reached(at)) =>
                     C12_NoopAuditsOnly(DirectiveEffects(at))
              /\ C12_WriteBeforeEnqueuedAudit(DirectiveEffects(at))

C12_Witness ==
    /\ Routed
    /\ IsOk(call.result)
    /\ Len(Directives) = 3
    /\ Directives[2].action = "noop"
    /\ Len(call.result.ok) = 2
    /\ \E i \in DOMAIN call.effects :
          call.effects[i].kind = "audit" /\ call.effects[i].record.event_type = "task.enqueued"

C13_InvalidInput == call # NoCall /\ ~IsOk(call.result) /\ call.result.err = "InvalidInput"

\* C13: whenever handle_action, handle_action_with_manifest or handle_watchdog_task
\* returns an invalid-input error (plugin or capability empty after trim, malformed
\* watchdog JSON, unsupported schema), the audit sink has received no record from
\* that call.
C13_InvalidInputNotAudited ==
    C13_InvalidInput =>
        /\ AuditsOf(call.effects) = <<>>
        /\ Len(sink) = call.sink_before

C14_Present(option) == IsSome(option) => Trim(Unwrap(option)) # ""

\* the envelope the claim admits: schema 1, a watchdog_poll, no blank payload string
C14_Admitted(task) ==
    /\ task.schema_version = 1
    /\ task.task_kind = "watchdog_poll"
    /\ Trim(task.payload.task_type) # ""
    /\ Trim(task.payload.project) # ""
    /\ Trim(task.payload.plugin) # ""
    /\ C14_Present(task.payload.source_key)
    /\ C14_Present(task.payload.trigger)

C14_WellFormed(parsed) == IsOk(parsed) /\ C14_Admitted(parsed.ok)

C14_Rejected ==
    /\ ~IsOk(call.result)
    /\ call.result.err = "InvalidInput"
    /\ call.effects = <<>>

\* C14: handle_watchdog_task accepts a raw task only if it parses as a
\* WatchdogTaskEnvelope with schema_version 1 and type watchdog_poll and every string
\* field of its payload (task_type, project, plugin, and source_key and trigger when
\* present) is non-empty after trim; any other input fails with invalid-input before
\* an event is dispatched to the plugin runner.
C14_AcceptsOnlyWellFormedTasks ==
    call.op = "handle_watchdog_task" =>
        (~C14_WellFormed(from_str(call.raw_task)) => C14_Rejected)

\* the outcomes a call returned
C15_Outcomes ==
    IF call = NoCall \/ ~IsOk(call.result) THEN {}
    ELSE IF call.op = "handle_watchdog_task"
    THEN {call.result.ok[i] : i \in DOMAIN call.result.ok}
    ELSE {call.result.ok}

C15_Audited(reason_code) ==
    \E i \in DOMAIN call.effects :
        /\ call.effects[i].kind = "audit"
        /\ <<"reason_code", reason_code>> \in call.effects[i].record.metadata

\* C15: every Blocked or ApprovalPending outcome returned by handle_action,
\* handle_action_with_manifest or handle_watchdog_task carries a reason code in its
\* detail, and an audit record emitted by the same call carries that same reason code,
\* for policy Deny and RequireApproval as well as for manifest denials.
C15_ReasonCodeAudited ==
    \A outcome \in C15_Outcomes :
        outcome.status \in {"Blocked", "ApprovalPending"} =>
            /\ outcome.detail # ""
            /\ C15_Audited(outcome.detail)

C16_Grants(capabilities, id) ==
    \E i \in DOMAIN capabilities : capabilities[i].id = id

\* the request of the claim: observe_domain by the stagehand plugin, its target d given
\* as input {domain: d} and as scope [d], under a stagehand manifest that grants
\* stagehand.enabled and stagehand.observe_domain for d, granted by the policy engine
C16_ObserveDomainByDomain ==
    /\ call.op = "handle_action_with_manifest"
    /\ executor = "DryRunExecutor"
    /\ call.request.capability.plugin = "stagehand"
    /\ call.request.capability.capability = "stagehand.observe_domain"
    /\ \E d \in {"example.com"} :
          /\ call.request.input = {<<"domain", d>>}
          /\ call.request.capability.scope = <<d>>
          /\ \E i \in DOMAIN call.manifest.capabilities :
                /\ call.manifest.capabilities[i].id = "stagehand.observe_domain"
                /\ \E j \in DOMAIN call.manifest.capabilities[i].scope :
                      call.manifest.capabilities[i].scope[j] = d
    /\ call.manifest.schema_version = 1
    /\ call.manifest.plugin = "stagehand"
    /\ C16_Grants(call.manifest.capabilities, "stagehand.enabled")
    /\ decide(allowed, require_approval_for_destructive, call.request).decision = "allow"

\* C16: a request by plugin stagehand for stagehand.observe_domain that names its
\* target as input {domain: d} with request scope [d], checked against a stagehand
\* manifest (schema_version 1) granting stagehand.enabled and stagehand.observe_domain
\* with scope containing d, and granted by policy, passes the manifest stage and ends
\* with status Executed.
C16_ObserveDomainExecutes ==
    C16_ObserveDomainByDomain =>
        /\ IsOk(call.result)
        /\ call.result.ok.status = "Executed"
        /\ \E i \in DOMAIN call.effects :
              /\ call.effects[i].kind = "audit"
              /\ call.effects[i].record.event_type = "governance.manifest.validated"

(***************************************************************************)
(* Claims about the arguments of RunCommand.                               *)
(***************************************************************************)
RunTokens == SplitWhitespace(arg.value)

RunArgs == [i \in 1..(Len(RunTokens) - 1) |-> RunTokens[i + 1]]

\* RunCommand reached the argument checks: enabled policy, no shell metacharacter,
\* allowlisted command, workspace boundaries active
C17_BoundariesActive ==
    /\ Evaluated("RunCommand")
    /\ stagehand.enabled
    /\ \A i \in 1..Len(arg.value) : CharAt(arg.value, i) \notin UnsafeShellChars
    /\ Len(RunTokens) > 0
    /\ RunTokens[1] \in stagehand.allowed_commands
    /\ stagehand.allowed_workspaces # {}

C17_Word(s) == s # "" /\ FindFrom(s, {"/"}, 1) = 0 /\ s # ".."

\* --name=value with a value that is no path
C17_ScalarOption(token) ==
    /\ StartsWith(token, "--")
    /\ FindFrom(token, {"="}, 1) # 0
    /\ C17_Word(SubSeq(token, FindFrom(token, {"="}, 1) + 1, Len(token)))

C17_PositionalScalar(token) == ~StartsWith(token, "-") /\ C17_Word(token)

C17_InWorkspacePath(token) ==
    is_absolute(token) /\ ~PathOutsideWorkspaces(token, stagehand.allowed_workspaces)

C17_ScalarsAndWorkspacePaths ==
    /\ \A i \in DOMAIN RunArgs :
          \/ C17_ScalarOption(RunArgs[i])
          \/ C17_PositionalScalar(RunArgs[i])
          \/ C17_InWorkspacePath(RunArgs[i])
    /\ \E i \in DOMAIN RunArgs :
          C17_ScalarOption(RunArgs[i]) \/ C17_PositionalScalar(RunArgs[i])

\* C17: with workspace boundaries active (allowed workspaces non-empty) scalar
\* arguments that are not paths do not cause a denial: RunCommand of an allowlisted
\* command whose arguments are an option with a scalar value (--color=always) or a
\* positional word without path separators (always), together with any absolute paths
\* that lie inside an allowed workspace, returns Allow{command_allowlisted}.
C17_ScalarArgumentsAllowed ==
    (C17_BoundariesActive /\ C17_ScalarsAndWorkspacePaths) =>
        ret = [decision |-> "Allow", reason_code |-> "command_allowlisted"]

\* the value an option token carries: after = in --name=value, after the letter (and
\* an =) in -xvalue and -x=value; none for a bare flag
C18_OptionValue(token) ==
    IF StartsWith(token, "--")
    THEN IF FindFrom(token, {"="}, 1) = 0 THEN <<>>
         ELSE <<SubSeq(token, FindFrom(token, {"="}, 1) + 1, Len(token))>>
    ELSE IF Len(token) <= 2 THEN <<>>
    ELSE IF CharAt(token, 3) = "=" THEN <<SubSeq(token, 4, Len(token))>>
    ELSE <<SubSeq(token, 3, Len(token))>>

RECURSIVE C18_PathValues(_, _)
\* the path values of the arguments as the claim classifies them; options tells
\* whether option processing is still on
C18_PathValues(args, options) ==
    IF Len(args) = 0 THEN <<>>
    ELSE IF ~options THEN <<Head(args)>> \o C18_PathValues(Tail(args), FALSE)
    ELSE IF Head(args) = "--" THEN C18_PathValues(Tail(args), FALSE)
    ELSE IF StartsWith(Head(args), "-")
    THEN SelectSeq(C18_OptionValue(Head(args)), LAMBDA v : v # "")
             \o C18_PathValues(Tail(args), TRUE)
    ELSE <<Head(args)>> \o C18_PathValues(Tail(args), TRUE)

\* C18: in RunCommand argument classification --name=value and -xvalue / -x=value
\* contribute their value as a path value, bare flags contribute none, and option
\* processing stops after a -- token: every token that follows -- is treated as a
\* positional path value, subject to the relative and absolute path rules, even when
\* it begins with -.
C18_OptionsStopAfterDoubleDash ==
    (C17_BoundariesActive /\ Len(RunArgs) > 0) =>
        /\ command_scoped_path_values(RunArgs) = C18_PathValues(RunArgs, TRUE)
        /\ (\E i \in DOMAIN C18_PathValues(RunArgs, TRUE) :
               ~is_absolute(C18_PathValues(RunArgs, TRUE)[i])) => ret.decision = "Deny"

\* the classification on commands without a -- token
C18_WithoutDoubleDash ==
    (C17_BoundariesActive /\ \A i \in DOMAIN RunArgs : RunArgs[i] # "--") =>
        command_scoped_path_values(RunArgs) = C18_PathValues(RunArgs, TRUE)

(***************************************************************************)
(* odin-governance skills.rs: skill registries. A raw registry is a text   *)
(* that is not YAML (Malformed) or a YAML document of mappings (JsonObj),  *)
(* sequences (JsonArr), strings and numbers.                               *)
(***************************************************************************)
JsonArr(items) == [arr |-> items]
IsJsonArr(v) == "arr" \in DOMAIN v

\* serde: a field with #[serde(default)] that holds a sequence when present
has_optional_items(fields, key) == key \in DOMAIN fields => IsJsonArr(fields[key])

optional_items(fields, key) == IF key \in DOMAIN fields THEN fields[key].arr ELSE <<>>

\* serde: RawDelegationCapability, unknown fields denied
IsRawDelegationCapability(v) ==
    /\ IsJsonObj(v)
    /\ DOMAIN v.obj \subseteq {"id", "scope"}
    /\ has_string(v.obj, "id")
    /\ has_optional_items(v.obj, "scope")
    /\ \A i \in DOMAIN optional_items(v.obj, "scope") : IsJsonStr(optional_items(v.obj, "scope")[i])

RawDelegationCapability(v) ==
    [id |-> v.obj.id.str,
     scope |-> [i \in DOMAIN optional_items(v.obj, "scope") |->
                   optional_items(v.obj, "scope")[i].str]]

\* serde: RawSkillRecord, unknown fields denied
IsRawSkillRecord(v) ==
    /\ IsJsonObj(v)
    /\ DOMAIN v.obj \subseteq {"name", "trust_level", "source", "pinned_version", "capabilities"}
    /\ has_string(v.obj, "name")
    /\ has_string(v.obj, "trust_level")
    /\ has_string(v.obj, "source")
    /\ has_optional_string(v.obj, "pinned_version")
    /\ has_optional_items(v.obj, "capabilities")
    /\ \A i \in DOMAIN optional_items(v.obj, "capabilities") :
          IsRawDelegationCapability(optional_items(v.obj, "capabilities")[i])

RawSkillRecord(v) ==
    [name |-> v.obj.name.str,
     trust_level |-> v.obj.trust_level.str,
     source |-> v.obj.source.str,
     pinned_version |-> optional_string(v.obj, "pinned_version"),
     capabilities |-> [i \in DOMAIN optional_items(v.obj, "capabilities") |->
                          RawDelegationCapability(optional_items(v.obj, "capabilities")[i])]]

\* serde: RawSkillRegistry, unknown fields denied
IsRawSkillRegistry(v) ==
    /\ IsJsonObj(v)
    /\ DOMAIN v.obj \subseteq {"schema_version", "scope", "skills"}
    /\ "schema_version" \in DOMAIN v.obj
    /\ "num" \in DOMAIN v.obj.schema_version
    /\ v.obj.schema_version.num >= 0    \* a u32
    /\ has_string(v.obj, "scope")
    /\ has_optional_items(v.obj, "skills")
    /\ \A i \in DOMAIN optional_items(v.obj, "skills") :
          IsRawSkillRecord(optional_items(v.obj, "skills")[i])

\* serde_yaml::from_str::<RawSkillRegistry>
registry_from_str(raw) ==
    IF ~IsRawSkillRegistry(raw) THEN Err("Parse")
    ELSE Ok([schema_version |-> raw.obj.schema_version.num,
             scope |-> raw.obj.scope.str,
             skills |-> [i \in DOMAIN optional_items(raw.obj, "skills") |->
                            RawSkillRecord(optional_items(raw.obj, "skills")[i])]])

SkillScopes == {"global", "project", "user"}

TrustLevels == {"trusted", "caution", "untrusted"}

parse_scope(value) ==
    IF ToAsciiLowercase(Trim(value)) \in SkillScopes
    THEN Ok(ToAsciiLowercase(Trim(value)))
    ELSE Err("Parse")

parse_trust_level(value) ==
    IF ToAsciiLowercase(Trim(value)) \in TrustLevels
    THEN Ok(ToAsciiLowercase(Trim(value)))
    ELSE Err("Parse")

is_scope_prefix(prefix) == ToAsciiLowercase(Trim(prefix)) \in SkillScopes

\* the source trimmed, with a scope prefix before the first colon lowercased
split_source(trimmed, colon) ==
    IF colon # 0 /\ is_scope_prefix(SubSeq(trimmed, 1, colon - 1))
    THEN ToAsciiLowercase(Trim(SubSeq(trimmed, 1, colon - 1))) \o ":"
             \o SubSeq(trimmed, colon + 1, Len(trimmed))
    ELSE trimmed

normalize_source(source) == split_source(Trim(source), FindFrom(Trim(source), {":"}, 1))

normalize_capability(capability) ==
    IF Trim(capability.id) = "" THEN Err("Parse")
    ELSE Ok(DelegationCapability(Trim(capability.id), capability.scope))

\* collect::<Result<Vec<_>, _>>(): the values, or the first error
collect(results) ==
    IF \E i \in DOMAIN results : ~IsOk(results[i]) THEN Err("Parse")
    ELSE Ok([i \in DOMAIN results |-> results[i].ok])

SkillRecord(name, trust_level, source, pinned_version, capabilities) ==
    [name |-> name, trust_level |-> trust_level, source |-> source,
     pinned_version |-> pinned_version, capabilities |-> capabilities]

normalized_record(record, trust_level, capabilities) ==
    IF ~IsOk(trust_level) THEN trust_level
    ELSE IF ~IsOk(capabilities) THEN capabilities
    ELSE Ok(SkillRecord(Trim(record.name), trust_level.ok, normalize_source(record.source),
                        record.pinned_version, capabilities.ok))

normalize_record(record) ==
    IF Trim(record.name) = "" THEN Err("Parse")
    ELSE IF Trim(record.source) = "" THEN Err("Parse")
    ELSE normalized_record(record, parse_trust_level(record.trust_level),
                           collect([i \in DOMAIN record.capabilities |->
                                       normalize_capability(record.capabilities[i])]))

ensure_unique_skill_names_Unchecked(skills) == Ok(<<>>)

\* Err for a name that is already in the set of the names seen
ensure_unique_skill_names(skills) ==
    IF \E i, j \in DOMAIN skills : i < j /\ skills[i].name = skills[j].name
    THEN Err("Parse")
    ELSE Ok(<<>>)

SkillRegistry(schema_version, scope, skills) ==
    [schema_version |-> schema_version, scope |-> scope, skills |-> skills]

\* parse_scoped_registry once the records are normalized
unique_registry(schema_version, scope, skills) ==
    IF ~IsOk(skills) THEN skills
    ELSE IF ~IsOk(ensure_unique_skill_names(skills.ok)) THEN Err("Parse")
    ELSE Ok(SkillRegistry(schema_version, scope, skills.ok))

\* parse_scoped_registry once the document deserialized
scoped_registry(raw_registry, scope) ==
    IF raw_registry.schema_version # 1 THEN Err("Parse")
    ELSE IF ~IsOk(parse_scope(raw_registry.scope)) THEN Err("Parse")
    ELSE IF parse_scope(raw_registry.scope).ok # scope THEN Err("Parse")
    ELSE unique_registry(raw_registry.schema_version, scope,
                         collect([i \in DOMAIN raw_registry.skills |->
                                     normalize_record(raw_registry.skills[i])]))

deserialized_registry(parsed, scope) ==
    IF ~IsOk(parsed) THEN parsed ELSE scoped_registry(parsed.ok, scope)

parse_scoped_registry(raw, scope) == deserialized_registry(registry_from_str(raw), scope)

\* the first record of the registry with the name, if the registry sits in its slot
find(name, registry, expected_scope) ==
    IF ~IsSome(registry) THEN Ok(None)
    ELSE IF Unwrap(registry).scope # expected_scope THEN Err("Parse")
    ELSE IF \E i \in DOMAIN Unwrap(registry).skills : Unwrap(registry).skills[i].name = name
    THEN Ok(Some(Unwrap(registry).skills[
                     CHOOSE i \in DOMAIN Unwrap(registry).skills :
                         /\ Unwrap(registry).skills[i].name = name
                         /\ \A j \in 1..(i - 1) : Unwrap(registry).skills[j].name # name]))
    ELSE Ok(None)

\* the chain of find calls: ? on an error, return on a record, else the next slot
found_or(found, next) ==
    IF ~IsOk(found) THEN found
    ELSE IF IsSome(found.ok) THEN found
    ELSE next

resolve_skill_GlobalFirst(name, user, project, global) ==
    IF Trim(name) = "" THEN Ok(None)
    ELSE found_or(find(Trim(name), global, "global"),
                  found_or(find(Trim(name), project, "project"),
                           found_or(find(Trim(name), user, "user"), Ok(None))))

resolve_skill(name, user, project, global) ==
    IF Trim(name) = "" THEN Ok(None)
    ELSE found_or(find(Trim(name), user, "user"),
                  found_or(find(Trim(name), project, "project"),
                           found_or(find(Trim(name), global, "global"), Ok(None))))

(***************************************************************************)
(* Loading and resolving skills.                                           *)
(***************************************************************************)
RawSkill(name, trust_level, source) ==
    JsonObj([name |-> JsonStr(name), trust_level |-> JsonStr(trust_level),
             source |-> JsonStr(source)])

RawRegistry(schema_version, scope, skills) ==
    JsonObj([schema_version |-> JsonNum(schema_version), scope |-> JsonStr(scope),
             skills |-> JsonArr(skills)])

Brainstorming == RawSkill("brainstorming", "trusted", "/skills/brainstorming")
Review == RawSkill("review", "caution", "PrOjEcT:/skills/review")

WithCapabilities(skill, capabilities) ==
    JsonObj(skill.obj @@ [capabilities |-> JsonArr(capabilities)])

RawCapability(id) == JsonObj([id |-> JsonStr(id), scope |-> JsonArr(<<JsonStr("project")>>)])

\* the skills sections of the loader tests, and lists with several records
RawSkillLists ==
    { <<>>, <<Brainstorming>>, <<Brainstorming, Review>>,
      <<RawSkill("brainstorming   ", "trusted", "/skills/brainstorming")>>,
      <<Brainstorming, Brainstorming>>,
      <<Brainstorming, Review, RawSkill("brainstorming", "untrusted", "/skills/other")>>,
      <<RawSkill(" review", "trusted", "/skills/a"), Review>>,
      <<RawSkill("Review", "trusted", "/skills/a"), Review>>,
      <<RawSkill("brainstorming", "definitely_trusted", "/skills/brainstorming")>>,
      <<RawSkill("brainstorming", " Trusted ", "/skills/brainstorming")>>,
      <<Review, RawSkill("  ", "trusted", "/skills/brainstorming")>>,
      <<RawSkill("", "trusted", "/skills/brainstorming")>>,
      <<RawSkill("brainstorming", "trusted", " ")>>,
      <<WithCapabilities(Brainstorming, <<RawCapability(" repo.read")>>)>>,
      <<WithCapabilities(Brainstorming, <<RawCapability("   ")>>)>>,
      <<WithCapabilities(Brainstorming,
                         <<JsonObj(RawCapability("repo.read").obj @@ [extra |-> JsonStr("true")])>>)>>,
      <<JsonObj(Brainstorming.obj @@ [extra |-> JsonStr("true")])>>,
      <<JsonObj(Brainstorming.obj @@ [scope |-> JsonStr("project")])>>,
      <<JsonObj(Brainstorming.obj @@ [pinned_version |-> JsonStr("abc123")])>>,
      <<JsonObj([name |-> JsonStr("brainstorming"), source |-> JsonStr("/skills/brainstorming")])>>,
      <<JsonObj([name |-> JsonStr("brainstorming"), trust_level |-> JsonStr("trusted")])>> }

RawScopes == {"user", "project", "global", " USER", "enterprise", ""}

RawRegistries ==
    { RawRegistry(1, scope, skills) : scope \in RawScopes, skills \in RawSkillLists }
    \cup { RawRegistry(v, "user", <<Brainstorming>>) : v \in {-1, 0, 2} }
    \cup { JsonObj([scope |-> JsonStr("user"), skills |-> JsonArr(<<Brainstorming>>)]),
           JsonObj([schema_version |-> JsonNum(1), skills |-> JsonArr(<<Brainstorming>>)]),
           JsonObj([schema_version |-> JsonNum(1), scope |-> JsonStr("user")]),
           JsonObj([schema_version |-> JsonNum(1), scope |-> JsonStr("user"),
                    owner |-> JsonStr("root"), skills |-> JsonArr(<<Brainstorming>>)]),
           JsonObj([schema_version |-> JsonNum(1), scope |-> JsonStr("user"),
                    skills |-> JsonStr("brainstorming")]),
           Malformed }

\* SkillRecord { source, trust_level, ..SkillRecord::default_for(name) }
SkillOf(name, trust_level, source) == SkillRecord(name, trust_level, source, None, <<>>)

\* the registries of the resolver tests, and registries with other records
SlotRegistries ==
    { SkillRegistry(1, "user", <<SkillOf("brainstorming", "trusted", "user:/skills/brainstorming")>>),
      SkillRegistry(1, "project",
                    <<SkillOf("brainstorming", "caution", "project:/skills/brainstorming")>>),
      SkillRegistry(1, "global",
                    <<SkillOf("brainstorming", "untrusted", "global:/skills/brainstorming")>>),
      SkillRegistry(1, "user", <<SkillOf("review", "trusted", "PROJECT:/skills/review")>>),
      SkillRegistry(1, "project",
                    <<SkillOf("review", "caution", "project:/skills/review"),
                      SkillOf("brainstorming", "caution", "project:/skills/brainstorming"),
                      SkillOf("review", "untrusted", "project:/skills/review-2")>>),
      SkillRegistry(1, "global", <<>>) }

Slots == {None} \cup {Some(registry) : registry \in SlotRegistries}

SkillNames == {"brainstorming", " brainstorming ", "review", "Review", "planning", "", "  "}

InitSkills ==
    /\ arg = NoRet
    /\ ret = NoRet
    /\ allowed = {}
    /\ require_approval_for_destructive = FALSE
    /\ IdleRuntime
    /\ IdleStagehand
    /\ IdleDisk

SkillsFrame ==
    UNCHANGED <<allowed, require_approval_for_destructive, executor, sink, ingress, call,
                stagehand, built_from, disk>>

(***************************************************************************)
(* odin-governance risk_scan.rs and import.rs: the install gate            *)
(***************************************************************************)
\* str::contains
Contains(haystack, pattern) ==
    \E i \in 1..(Len(haystack) - Len(pattern) + 1) :
        SubSeq(haystack, i, i + Len(pattern) - 1) = pattern

SHELL_PATTERNS == <<"curl | sh", "| sh", "| bash", "bash -c", "sh -c">>
NETWORK_PATTERNS ==
    <<"curl ", "wget ", "invoke-webrequest", "invoke-restmethod", "requests.", "http.client",
      "reqwest::", "net/http", "axios.", "fetch(">>
SECRET_PATTERNS ==
    <<"aws_secret", "github_token", "access_token", "secret_key", "api_key", "token=",
      "password=">>
DELETE_PATTERNS == <<"rm -rf", "del /f", "shred ">>

RiskFinding(category, pattern) == [category |-> category, pattern |-> pattern]

\* the findings with a finding pushed for each pattern the text holds, in the order of
\* the patterns, unless it is there (the patterns of a list are distinct)
collect_matches(haystack, patterns, category, findings) ==
    findings
    \o SelectSeq([i \in DOMAIN patterns |-> RiskFinding(category, patterns[i])],
                 LAMBDA finding :
                     /\ Contains(haystack, finding.pattern)
                     /\ ~\E i \in DOMAIN findings : findings[i] = finding)

\* scan_text on the lowercased text
scan_normalized(normalized, findings) ==
    collect_matches(normalized, DELETE_PATTERNS, "Delete",
        collect_matches(normalized, SECRET_PATTERNS, "Secret",
            collect_matches(normalized, NETWORK_PATTERNS, "Network",
                collect_matches(normalized, SHELL_PATTERNS, "Shell", findings))))

scan_text(text, findings) == scan_normalized(ToAsciiLowercase(text), findings)

RECURSIVE scan_scripts(_, _)
scan_scripts(scripts, findings) ==
    IF Len(scripts) = 0 THEN findings
    ELSE scan_scripts(Tail(scripts), scan_text(Head(scripts), findings))

scan_readme(readme, findings) ==
    IF IsSome(readme) THEN scan_text(Unwrap(readme), findings) ELSE findings

scan_skill_content(scripts, readme) == scan_readme(readme, scan_scripts(scripts, <<>>))

SkillImportCandidate(record, scripts, readme) ==
    [record |-> record, scripts |-> scripts, readme |-> readme]

InstallPlan(status, findings, reasons) ==
    [status |-> status, findings |-> findings, reasons |-> reasons]

\* the reasons pushed, in the order of the three checks
install_reasons(candidate, findings) ==
    (IF candidate.record.trust_level = "untrusted" THEN <<"untrusted_skill">> ELSE <<>>)
    \o (IF candidate.scripts # <<>> THEN <<"script_present">> ELSE <<>>)
    \o (IF \E i \in DOMAIN findings : findings[i].category = "Secret"
        THEN <<"secret_touching_risk">> ELSE <<>>)

install_plan_AckClearsReasons(reasons, findings, ack) ==
    InstallPlan(IF reasons # <<>> /\ ack = "None" THEN "BlockedAckRequired" ELSE "Allowed",
                findings, IF ack = "Accepted" THEN <<>> ELSE reasons)

install_plan(reasons, findings, ack) ==
    InstallPlan(IF reasons # <<>> /\ ack = "None" THEN "BlockedAckRequired" ELSE "Allowed",
                findings, reasons)

scanned_install(candidate, findings, ack) ==
    Ok(install_plan(install_reasons(candidate, findings), findings, ack))

evaluate_install(candidate, ack) ==
    IF Trim(candidate.record.name) = "" THEN Err("EmptyName")
    ELSE scanned_install(candidate, scan_skill_content(candidate.scripts, candidate.readme), ack)

BenignScript == "#!/usr/bin/env bash\necho running"
InstallerScript == "#!/usr/bin/env bash\ncurl https://example.invalid/install.sh | sh"
SecretScript == "#!/usr/bin/env bash\necho API_KEY"

CandidateScripts ==
    { <<>>, <<BenignScript>>, <<InstallerScript>>, <<SecretScript, BenignScript>>,
      <<InstallerScript, InstallerScript>> }

CandidateReadmes ==
    { None, Some("See docs: https://example.com/usage"), Some("export TOKEN=abc; rm -rf ./tmp") }

ImportCandidates ==
    { SkillImportCandidate(SkillOf(name, trust_level, "local:/skills/" \o name), scripts, readme) :
        name \in {"trusted-local", "   "}, trust_level \in TrustLevels,
        scripts \in CandidateScripts, readme \in CandidateReadmes }

Acks == {"None", "Accepted"}

EvaluateInstall ==
    /\ ret = NoRet
    /\ \E candidate \in ImportCandidates, ack \in Acks :
          /\ arg' = [op |-> "evaluate_install", candidate |-> candidate, ack |-> ack]
          /\ ret' = evaluate_install(candidate, ack)
    /\ SkillsFrame

ParseScopedRegistry ==
    /\ ret = NoRet
    /\ \E raw \in RawRegistries, scope \in SkillScopes :
          /\ arg' = [op |-> "parse_scoped_registry", raw |-> raw, scope |-> scope]
          /\ ret' = parse_scoped_registry(raw, scope)
    /\ SkillsFrame

ResolveSkill ==
    /\ ret = NoRet
    /\ \E name \in SkillNames, user \in Slots, project \in Slots, global \in Slots :
          /\ arg' = [op |-> "resolve_skill", name |-> name, user |-> user,
                     project |-> project, global |-> global]
          /\ ret' = resolve_skill(name, user, project, global)
    /\ SkillsFrame

NextSkills == ParseScopedRegistry \/ ResolveSkill \/ EvaluateInstall

SpecSkills == InitSkills /\ [][NextSkills]_vars

Called(op) == ret # NoRet /\ arg.op = op

(***************************************************************************)
(* Claims about skill registries.                                          *)
(***************************************************************************)
C19_Names(skills) == [i \in DOMAIN skills |-> skills[i].name]

\* what the claim promises of a registry returned for scope S
C19_WellFormed(registry, scope) ==
    /\ registry.scope = scope
    /\ registry.schema_version = 1
    /\ \A i \in DOMAIN registry.skills :
          /\ registry.skills[i].name # ""
          /\ registry.skills[i].name = Trim(registry.skills[i].name)
          /\ registry.skills[i].trust_level \in {"trusted", "caution", "untrusted"}
    /\ \A i, j \in DOMAIN registry.skills :
          i # j => registry.skills[i].name # registry.skills[j].name

\* the records of the document, for a document that has the shape of a registry
C19_Records(raw) ==
    IF "skills" \in DOMAIN raw.obj THEN raw.obj.skills.arr ELSE <<>>

\* the violations the claim names, read off the document
C19_Violates(raw, scope) ==
    \/ raw.obj.schema_version.num # 1
    \/ ToAsciiLowercase(Trim(raw.obj.scope.str)) # scope
    \/ \E i \in DOMAIN C19_Records(raw) : Trim(C19_Records(raw)[i].obj.name.str) = ""
    \/ \E i, j \in DOMAIN C19_Records(raw) :
          /\ i # j
          /\ Trim(C19_Records(raw)[i].obj.name.str) = Trim(C19_Records(raw)[j].obj.name.str)
    \/ \E i \in DOMAIN C19_Records(raw) :
          ToAsciiLowercase(Trim(C19_Records(raw)[i].obj.trust_level.str))
              \notin {"trusted", "caution", "untrusted"}

\* C19: every registry returned by parse_scoped_registry(raw, S) has scope S and
\* schema_version 1, its skill names are non-empty, trimmed and pairwise distinct
\* (case-sensitive), and every record's trust_level is one of trusted, caution,
\* untrusted; an input that violates any of these (scope mismatch, other schema
\* version, duplicate or empty name, unknown trust level) is rejected with a parse
\* error and yields no registry.
C19_RegistryWellFormed ==
    Called("parse_scoped_registry") =>
        /\ IsOk(ret) => C19_WellFormed(ret.ok, arg.scope)
        /\ ~IsOk(ret) => ret = Err("Parse")
        /\ (IsRawSkillRegistry(arg.raw) /\ C19_Violates(arg.raw, arg.scope)) => ret = Err("Parse")
        /\ ~IsRawSkillRegistry(arg.raw) => ret = Err("Parse")

\* a registry of two records was returned, one of its names trimmed by the loader
C19_Witness ==
    /\ Called("parse_scoped_registry")
    /\ IsOk(ret)
    /\ C19_Names(ret.ok.skills) = <<"Review", "review">>
    /\ arg.raw.obj.scope.str = " USER"
    /\ ret.ok.scope = "user"

\* a document whose names collide after trimming was rejected
C19_RejectedWitness ==
    /\ Called("parse_scoped_registry")
    /\ IsRawSkillRegistry(arg.raw)
    /\ Len(C19_Records(arg.raw)) = 2
    /\ C19_Records(arg.raw)[1].obj.name.str = " review"
    /\ arg.raw.obj.scope.str = arg.scope
    /\ ret = Err("Parse")

\* the registries passed to resolve_skill, in the order of precedence
C20_Passed == <<arg.user, arg.project, arg.global>>

C20_SlotScope == <<"user", "project", "global">>

C20_CorrectlyScoped ==
    \A slot \in 1..3 :
        IsSome(C20_Passed[slot]) => Unwrap(C20_Passed[slot]).scope = C20_SlotScope[slot]

\* the positions of the records with the name in the registry of a slot
C20_At(slot, name) ==
    IF ~IsSome(C20_Passed[slot]) THEN {}
    ELSE {i \in DOMAIN Unwrap(C20_Passed[slot]).skills :
              Unwrap(C20_Passed[slot]).skills[i].name = name}

C20_Holders(name) == {slot \in 1..3 : C20_At(slot, name) # {}}

C20_First(S) == CHOOSE x \in S : \A y \in S : x <= y

C20_Expected(name) ==
    IF name = "" \/ C20_Holders(name) = {} THEN None
    ELSE Some(Unwrap(C20_Passed[C20_First(C20_Holders(name))]).skills[
                  C20_First(C20_At(C20_First(C20_Holders(name)), name))])

\* C20: resolve_skill(name, user, project, global), given correctly scoped registries,
\* returns a copy of the record whose name equals trim(name) from the first registry in
\* the order user, project, global that contains it, and none when no passed registry
\* contains it or the trimmed name is empty; a record in a higher-precedence registry
\* always shadows same-named records in lower ones.
C20_ResolvesByPrecedence ==
    (Called("resolve_skill") /\ C20_CorrectlyScoped) =>
        ret = Ok(C20_Expected(Trim(arg.name)))

\* the user registry's record shadowed the records of the project and global registries
C20_Witness ==
    /\ Called("resolve_skill")
    /\ C20_CorrectlyScoped
    /\ arg.name = " brainstorming "
    /\ C20_Holders("brainstorming") = {1, 2, 3}
    /\ ret = Ok(Some(SkillOf("brainstorming", "trusted", "user:/skills/brainstorming")))


\* some registry passed to resolve_skill is not in the slot of its scope
C21_WrongScopeWiring ==
    \E slot \in 1..3 :
        IsSome(C20_Passed[slot]) /\ Unwrap(C20_Passed[slot]).scope # C20_SlotScope[slot]

\* C21: resolve_skill returns a parse error whenever any registry passed to it does
\* not have the scope of the slot it is passed in (user, project, global), for every
\* name and regardless of whether a higher-precedence registry already contains the
\* name.
C21_WrongScopeRejected ==
    (Called("resolve_skill") /\ C21_WrongScopeWiring) => ret = Err("Parse")


(***************************************************************************)
(* Claims about the install gate.                                          *)
(***************************************************************************)
C22_Texts ==
    Range(arg.candidate.scripts)
    \cup (IF IsSome(arg.candidate.readme) THEN {Unwrap(arg.candidate.readme)} ELSE {})

\* the risk scan found a pattern of the secret category
C22_SecretFound ==
    \E text \in C22_Texts, i \in DOMAIN SECRET_PATTERNS :
        Contains(ToAsciiLowercase(text), SECRET_PATTERNS[i])

C22_Reasons ==
    (IF arg.candidate.record.trust_level = "untrusted" THEN {"untrusted_skill"} ELSE {})
    \cup (IF Len(arg.candidate.scripts) >= 1 THEN {"script_present"} ELSE {})
    \cup (IF C22_SecretFound THEN {"secret_touching_risk"} ELSE {})

C22_OtherAck == IF arg.ack = "None" THEN "Accepted" ELSE "None"

\* C22: evaluate_install(candidate, ack) fails with an empty-name error iff the
\* candidate name is empty after trim; otherwise reasons contains untrusted_skill iff
\* trust_level is untrusted, script_present iff the candidate has at least one script,
\* and secret_touching_risk iff the risk scan found a secret-category pattern; status
\* is BlockedAckRequired iff reasons is non-empty and ack is None, otherwise Allowed;
\* findings and reasons are the same for both acks, so ack = Accepted changes only the
\* status.
C22_InstallGate ==
    Called("evaluate_install") =>
        IF Trim(arg.candidate.record.name) = "" THEN ret = Err("EmptyName")
        ELSE /\ IsOk(ret)
             /\ Range(ret.ok.reasons) = C22_Reasons
             /\ Len(ret.ok.reasons) = Cardinality(C22_Reasons)
             /\ ret.ok.status = (IF ret.ok.reasons # <<>> /\ arg.ack = "None"
                                 THEN "BlockedAckRequired" ELSE "Allowed")
             /\ ret.ok.findings = scan_skill_content(arg.candidate.scripts, arg.candidate.readme)
             /\ ret.ok.findings = evaluate_install(arg.candidate, C22_OtherAck).ok.findings
             /\ ret.ok.reasons = evaluate_install(arg.candidate, C22_OtherAck).ok.reasons

\* an acknowledged untrusted candidate with an installer script and a secret in its
\* readme is allowed, all three reasons and the findings still returned
C22_Witness ==
    /\ Called("evaluate_install")
    /\ arg.ack = "Accepted"
    /\ IsOk(ret)
    /\ ret.ok.status = "Allowed"
    /\ ret.ok.reasons = <<"untrusted_skill", "script_present", "secret_touching_risk">>
    /\ RiskFinding("Secret", "token=") \in Range(ret.ok.findings)
    /\ RiskFinding("Shell", "| sh") \in Range(ret.ok.findings)


(***************************************************************************)
(* Claims about the manifest stage short-circuit.                          *)
(***************************************************************************)
\* a valid request that fails a check of the manifest stage
C27_BlockedAtManifest ==
    /\ ValidCall("handle_action_with_manifest")
    /\ \/ call.manifest.schema_version # 1
       \/ IsSome(manifest_denial_reason(call.request, call.manifest))

\* C27: when handle_action_with_manifest blocks a request at the manifest stage it
\* records exactly one audit event, governance.manifest.denied, returns status Blocked
\* with output null, records neither governance.manifest.validated nor
\* policy.decision, and invokes neither the policy engine nor the executor.
C27_ManifestDenialShortCircuits ==
    C27_BlockedAtManifest =>
        /\ Len(sink) - call.sink_before = 1
        /\ sink[Len(sink)].record.event_type = "governance.manifest.denied"
        /\ \A i \in PositionsOfKind("audit") :
              call.effects[i].record.event_type
                  \notin {"governance.manifest.validated", "policy.decision"}
        /\ IsOk(call.result)
        /\ call.result.ok.status = "Blocked"
        /\ call.result.ok.output = JsonNull
        /\ PositionsOfKind("decide") = {}
        /\ PositionsOfKind("execute") = {}

\* a request the policy would allow and the executor would run is blocked by the manifest
C27_Witness ==
    /\ C27_BlockedAtManifest
    /\ decide(allowed, require_approval_for_destructive, call.request).decision = "allow"
    /\ executor = "DryRunExecutor"
    /\ call.result.ok.status = "Blocked"
    /\ call.effects[1].record.event_type = "governance.manifest.denied"


(***************************************************************************)
(* Claims about failing watchdog calls.                                    *)
(***************************************************************************)
\* the follow-up task payloads of the call that ingress accepted
C30_Accepted ==
    SelectSeq(SubSeq(ingress, call.ingress_before + 1, Len(ingress)),
              LAMBDA written : written.accepted)

\* C30: whenever handle_watchdog_task returns an error, no follow-up task payload from
\* that call has been accepted by ingress.
C30_AllOrNothing ==
    (call.op = "handle_watchdog_task" /\ ~IsOk(call.result)) => C30_Accepted = <<>>


(***************************************************************************)
(* Claims about what an allowed RunCommand implies.                        *)
(***************************************************************************)
\* the path value an argument carries: the token when positional, the text after = in
\* --name=value, the text after the letter (and an =) in an attached short option
C28_PathValue(token) ==
    IF StartsWith(token, "-") THEN SelectSeq(C18_OptionValue(token), LAMBDA v : v # "")
    ELSE <<token>>

C28_BareFlag(token) == StartsWith(token, "-") /\ C28_PathValue(token) = <<>>

\* component-wise: every component of the base is the component of the path at its place
C28_Under(path, base) ==
    /\ Len(base) <= Len(path)
    /\ \A k \in DOMAIN base : path[k] = base[k]

\* an absolute path whose canonical form equals or lies under the canonical form of
\* some allowed workspace
C28_InAllowedWorkspace(value) ==
    /\ is_absolute(value)
    /\ \E p \in {canonicalize(value)} :
          /\ IsSome(p)
          /\ \E workspace \in stagehand.allowed_workspaces :
                \E w \in {normalize_boundary_path(workspace)} :
                    IsSome(w) /\ C28_Under(Unwrap(p), Unwrap(w))

Disk(dirs, files) == [dirs |-> dirs, files |-> files]

path_exists(d, path) == path \in d.dirs \/ path \in DOMAIN d.files
is_dir(d, path) == path \in d.dirs
is_file(d, path) == path \in DOMAIN d.files

\* the path and every directory above it
Ancestors(path) == {SubSeq(path, 1, k) : k \in 0..Len(path)}

remove_dir_all(d, path) ==
    Disk({q \in d.dirs : ~path_starts_with(q, path)},
         [f \in {g \in DOMAIN d.files : ~path_starts_with(g, path)} |-> d.files[f]])

\* fs::create_dir_all: None when a regular file is in the way
create_dir_all(d, path) ==
    IF \E a \in Ancestors(path) : a \in DOMAIN d.files THEN None
    ELSE Some(Disk(d.dirs \cup Ancestors(path), d.files))

\* fs::write into an existing directory
fs_write(d, path, contents) ==
    Disk(d.dirs, [f \in DOMAIN d.files \cup {path} |-> IF f = path THEN contents ELSE d.files[f]])

\* the characters of the names on these disks, in byte order
AsciiOrder == " -./0123456789\\_abcdefghijklmnopqrstuvwxyz"

Ord(c) == CHOOSE i \in 1..Len(AsciiOrder) : CharAt(AsciiOrder, i) = c

\* str::cmp is Less
StrLess(a, b) ==
    \E i \in 1..Len(b) :
        /\ Len(a) >= i - 1
        /\ SubSeq(a, 1, i - 1) = SubSeq(b, 1, i - 1)
        /\ \/ Len(a) = i - 1
           \/ Ord(CharAt(a, i)) < Ord(CharAt(b, i))

\* Path::cmp is Less: component by component
PathLess(p, q) ==
    \E i \in 1..Len(q) :
        /\ Len(p) >= i - 1
        /\ SubSeq(p, 1, i - 1) = SubSeq(q, 1, i - 1)
        /\ \/ Len(p) = i - 1
           \/ StrLess(p[i], q[i])

\* the paths of a set in Path order
SortPaths(paths) ==
    [k \in 1..Cardinality(paths) |->
        CHOOSE p \in paths : Cardinality({q \in paths : PathLess(q, p)}) = k - 1]

(***************************************************************************)
(* odin-migration checksum.rs                                              *)
(***************************************************************************)
manifest_json ==
    "{\n  \"schema_version\": 1,\n  \"user_data_model_version\": 1,\n  \"skills\": {},\n  \"learnings\": {},\n  \"runtime\": {},\n  \"checkpoints\": {},\n  \"events\": {},\n  \"opaque\": {},\n  \"quarantine\": {},\n  \"meta\": {}\n}\n"

\* Sha256::digest in hex on the contents of the files on these disks
Sha256Hex ==
    ("z" :> "594e519ae499312b29433b7dd8a97ff068defcba9755b6d5d00e84c524d67b06")
    @@ ("a" :> "ca978112ca1bbdcafac231b39a23dc4da786eff8147c4e72b9807785afee48bb")
    @@ ("m" :> "62c66a7a5dd70c3146618063c344e531e6d4b59e379808443ce962b3abd63c5a")
    @@ ("r1" :> "82f3e9c695dc6b8d1b11818d5701919e286de8d47f7c3eb3100c485f79e57828")
    @@ ("e1" :> "8b5cc4df7eec7d32a7814eca4af047ae33b2d52342667715682e19c25b0b9faa")
    @@ ("ignore" :> "5f0af516936c6ab13dfce52362f84a3c0aa8d87aca8f2bcaf55ad4e1e0178034")
    @@ ("stale" :> "a03f2386ae06b21109577020844df367857b72c2fcce384c1896fed98a89c82b")
    @@ ("seed" :> "19b25856e1c150ca834cffc8b59b23adbd0ec0389e58eb22b3b64768098d002b")
    @@ ("abc" :> "ba7816bf8f01cfea414140de5dae2223b00361a396177a9cb410ff61f20015ad")
    @@ ("tampered" :> "d121be3103007b41edf96f8262925f8c7d61894afe9a041843b631f69445bc57")
    @@ (manifest_json :> "5e6740b31285a2314086ab75a1db8d2fdd73b1358076fb1effb6491d51b8ae97")

checksum_hex(bytes) == Sha256Hex[bytes]

RECURSIVE Replace(_, _, _)
\* str::replace of one character
Replace(s, from, to) ==
    IF Len(s) = 0 THEN s
    ELSE IF Len(s) = 1 THEN (IF s = from THEN to ELSE s)
    ELSE Replace(SubSeq(s, 1, Len(s) \div 2), from, to)
         \o Replace(SubSeq(s, Len(s) \div 2 + 1, Len(s)), from, to)

\* Path::to_string_lossy of a relative path
to_string_lossy(path) == JoinParts(path)

normalize_relative_path(path) == Replace(to_string_lossy(path), "\\", "/")

checksum_entries(d, bundle_root, relative_paths) ==
    [i \in DOMAIN relative_paths |->
        [path |-> normalize_relative_path(relative_paths[i]),
         digest |-> checksum_hex(d.files[bundle_root \o relative_paths[i]])]]

\* entries.sort_by(|a, b| a.0.cmp(&b.0)): stable, by the normalized path
sort_by_path(entries) ==
    [k \in DOMAIN entries |->
        entries[CHOOSE i \in DOMAIN entries :
                    Cardinality({j \in DOMAIN entries :
                                    \/ StrLess(entries[j].path, entries[i].path)
                                    \/ entries[j].path = entries[i].path /\ j < i}) = k - 1]]

RECURSIVE checksum_output(_)
checksum_output(entries) ==
    IF Len(entries) = 0 THEN ""
    ELSE Head(entries).digest \o "  " \o Head(entries).path \o "\n"
         \o checksum_output(Tail(entries))

write_checksums_file(d, bundle_root, relative_paths, output_path) ==
    fs_write(d, output_path,
             checksum_output(sort_by_path(checksum_entries(d, bundle_root, relative_paths))))

(***************************************************************************)
(* odin-migration export.rs                                                *)
(***************************************************************************)
SectionMapping(name, source) == [name |-> name, source |-> source]

SECTION_MAPPINGS ==
    << SectionMapping("skills", "SourceRoot"), SectionMapping("learnings", "SourceRoot"),
       SectionMapping("runtime", "OdinDir"), SectionMapping("checkpoints", "OdinDir"),
       SectionMapping("events", "OdinDir"), SectionMapping("opaque", "SourceRoot"),
       SectionMapping("quarantine", "SourceRoot"), SectionMapping("meta", "OdinDir") >>

\* the directory a section is copied from
section_path(mapping, source_root, odin_dir) ==
    (IF mapping.source = "SourceRoot" THEN source_root ELSE odin_dir) \o <<mapping.name>>

RECURSIVE normalize_path(_)
normalize_path(path) ==
    IF Len(path) = 0 THEN path
    ELSE IF path[Len(path)] = "." THEN normalize_path(SubSeq(path, 1, Len(path) - 1))
    ELSE IF path[Len(path)] = ".."
    THEN SubSeq(normalize_path(SubSeq(path, 1, Len(path) - 1)), 1,
                Len(normalize_path(SubSeq(path, 1, Len(path) - 1))) - 1)
    ELSE Append(normalize_path(SubSeq(path, 1, Len(path) - 1)), path[Len(path)])

\* an absolute path on a disk without symbolic links resolves to itself
canonicalize_path_allow_missing(path) == normalize_path(path)

validate_input_directory(d, path) == path_exists(d, path) /\ is_dir(d, path)

output_equals_input_root(source_root, odin_dir, out_dir) ==
    \/ canonicalize_path_allow_missing(out_dir) = normalize_path(source_root)
    \/ canonicalize_path_allow_missing(out_dir) = normalize_path(odin_dir)

output_inside_mapped_source_section(source_root, odin_dir, out_dir) ==
    \E i \in DOMAIN SECTION_MAPPINGS :
        path_starts_with(
            canonicalize_path_allow_missing(out_dir),
            canonicalize_path_allow_missing(
                section_path(SECTION_MAPPINGS[i], source_root, odin_dir)))

\* prepare_clean_output_dir leaving what out_dir holds
prepare_clean_output_dir_KeepingStale(d, out_dir) ==
    IF path_exists(d, out_dir) /\ ~is_dir(d, out_dir) THEN None
    ELSE create_dir_all(d, out_dir)

\* Some(disk with an empty out_dir), None when out_dir cannot be made a directory
prepare_clean_output_dir(d, out_dir) ==
    IF path_exists(d, out_dir)
    THEN IF ~is_dir(d, out_dir) THEN None
         ELSE create_dir_all(remove_dir_all(d, out_dir), out_dir)
    ELSE create_dir_all(d, out_dir)

\* the regular files below root, relative to it, sorted
collect_relative_files(d, root) ==
    SortPaths({SubSeq(f, Len(root) + 1, Len(f)) :
                  f \in {g \in DOMAIN d.files : path_starts_with(g, root)}})

\* the disk after the copies of a section, the directories of the copies created
copied(d, source_section_dir, out_section_dir, relative_files) ==
    Disk(d.dirs \cup UNION {Ancestors(out_section_dir \o SubSeq(relative_files[i], 1,
                                                               Len(relative_files[i]) - 1)) :
                               i \in DOMAIN relative_files},
         [f \in DOMAIN d.files \cup {out_section_dir \o relative_files[i] :
                                        i \in DOMAIN relative_files} |->
             IF \E i \in DOMAIN relative_files : f = out_section_dir \o relative_files[i]
             THEN d.files[source_section_dir \o SubSeq(f, Len(out_section_dir) + 1, Len(f))]
             ELSE d.files[f]])

\* the disk and Some(written files), None when the source section is no directory
copy_section_files(d, source_section_dir, out_section_dir, section_name) ==
    IF ~path_exists(d, source_section_dir) THEN [disk |-> d, written |-> Some(<<>>)]
    ELSE IF ~is_dir(d, source_section_dir) THEN [disk |-> d, written |-> None]
    ELSE [disk |-> copied(d, source_section_dir, out_section_dir,
                          collect_relative_files(d, source_section_dir)),
          written |-> Some([i \in DOMAIN collect_relative_files(d, source_section_dir) |->
                               <<section_name>>
                               \o collect_relative_files(d, source_section_dir)[i]])]

RECURSIVE export_sections(_, _, _, _, _, _)
\* the loop of write_bundle after the copy of the i-th section
export_section(section, source_root, odin_dir, out_dir, i, written_files) ==
    IF ~IsSome(section.written) THEN [disk |-> section.disk, written |-> None]
    ELSE export_sections(section.disk, source_root, odin_dir, out_dir, i + 1,
                         written_files \o Unwrap(section.written))

\* the loop over SECTION_MAPPINGS from the i-th mapping on
export_sections(d, source_root, odin_dir, out_dir, i, written_files) ==
    IF i > Len(SECTION_MAPPINGS) THEN [disk |-> d, written |-> Some(written_files)]
    ELSE IF ~IsSome(create_dir_all(d, out_dir \o <<SECTION_MAPPINGS[i].name>>))
    THEN [disk |-> d, written |-> None]
    ELSE export_section(
             copy_section_files(
                 Unwrap(create_dir_all(d, out_dir \o <<SECTION_MAPPINGS[i].name>>)),
                 section_path(SECTION_MAPPINGS[i], source_root, odin_dir),
                 out_dir \o <<SECTION_MAPPINGS[i].name>>, SECTION_MAPPINGS[i].name),
             source_root, odin_dir, out_dir, i, written_files)

\* the disk a command leaves and its result
Left(d, result) == [disk |-> d, result |-> result]

\* write_bundle from the manifest on
finish_bundle(d, out_dir, written_files) ==
    Left(write_checksums_file(fs_write(d, out_dir \o <<"manifest.json">>, manifest_json),
                              out_dir, Append(written_files, <<"manifest.json">>),
                              out_dir \o <<"checksums.sha256">>),
         Ok("written"))

\* write_bundle after the loop over the sections
exported(sections, out_dir) ==
    IF ~IsSome(sections.written) THEN Left(sections.disk, Err("SectionNotDirectory"))
    ELSE IF Len(Unwrap(sections.written)) = 0 THEN Left(sections.disk, Err("NoMappedFiles"))
    ELSE finish_bundle(sections.disk, out_dir, Unwrap(sections.written))

\* write_bundle after prepare_clean_output_dir
cleaned(prepared, d, source_root, odin_dir, out_dir) ==
    IF ~IsSome(prepared) THEN Left(d, Err("OutputDirectory"))
    ELSE exported(export_sections(Unwrap(prepared), source_root, odin_dir, out_dir, 1, <<>>),
                  out_dir)

write_bundle(d, source_root, odin_dir, out_dir) ==
    IF ~validate_input_directory(d, source_root) THEN Left(d, Err("InputDirectory"))
    ELSE IF ~validate_input_directory(d, odin_dir) THEN Left(d, Err("InputDirectory"))
    ELSE IF output_equals_input_root(source_root, odin_dir, out_dir)
    THEN Left(d, Err("OutputEqualsInputRoot"))
    ELSE IF output_inside_mapped_source_section(source_root, odin_dir, out_dir)
    THEN Left(d, Err("OutputInsideSection"))
    ELSE cleaned(prepare_clean_output_dir(d, out_dir), d, source_root, odin_dir, out_dir)

(***************************************************************************)
(* odin-migration verify.rs                                                *)
(***************************************************************************)
MANIFEST_FILENAME == "manifest.json"
CHECKSUMS_FILENAME == "checksums.sha256"

ensure_bundle_root(d, bundle_dir) == path_exists(d, bundle_dir) /\ is_dir(d, bundle_dir)

\* Some(error) or None
required_structure_error(d, bundle_dir) ==
    IF ~is_file(d, bundle_dir \o <<MANIFEST_FILENAME>>) THEN Some("MissingFile")
    ELSE IF ~is_file(d, bundle_dir \o <<CHECKSUMS_FILENAME>>) THEN Some("MissingFile")
    ELSE IF \E i \in DOMAIN SECTION_MAPPINGS :
                ~is_dir(d, bundle_dir \o <<SECTION_MAPPINGS[i].name>>)
    THEN Some("MissingDirectory")
    ELSE None

Newlines(text) == {i \in 1..Len(text) : CharAt(text, i) = "\n"}

LineStarts(text) == {s \in {1} \cup {i + 1 : i \in Newlines(text)} : s <= Len(text)}

LineEnd(text, s) ==
    IF \E n \in Newlines(text) : n >= s
    THEN (CHOOSE n \in Newlines(text) : n >= s /\ \A m \in Newlines(text) : m >= s => n <= m) - 1
    ELSE Len(text)

StripCr(line) == IF EndsWith(line, "\r") THEN SubSeq(line, 1, Len(line) - 1) ELSE line

LineFrom(text, s) == StripCr(SubSeq(text, s, LineEnd(text, s)))

\* str::lines collected
Lines(text) ==
    [k \in 1..Cardinality(LineStarts(text)) |->
        LineFrom(text, CHOOSE s \in LineStarts(text) :
                           Cardinality({t \in LineStarts(text) : t < s}) = k - 1)]

\* line.split_once("  ")
split_once_spaces(line) ==
    IF \E i \in 1..(Len(line) - 1) : SubSeq(line, i, i + 1) = "  "
    THEN Some(<<SubSeq(line, 1,
                       (CHOOSE i \in 1..(Len(line) - 1) :
                            /\ SubSeq(line, i, i + 1) = "  "
                            /\ \A j \in 1..(i - 1) : SubSeq(line, j, j + 1) # "  ") - 1),
                SubSeq(line,
                       (CHOOSE i \in 1..(Len(line) - 1) :
                            /\ SubSeq(line, i, i + 1) = "  "
                            /\ \A j \in 1..(i - 1) : SubSeq(line, j, j + 1) # "  ") + 2,
                       Len(line))>>)
    ELSE None

HexDigits ==
    {"0", "1", "2", "3", "4", "5", "6", "7", "8", "9", "a", "b", "c", "d", "e", "f",
     "A", "B", "C", "D", "E", "F"}

looks_like_sha256_hex(candidate) ==
    Len(candidate) = 64 /\ \A i \in 1..Len(candidate) : CharAt(candidate, i) \in HexDigits

\* Ok(normalized path) or the error of the line
normalize_checksum_path(raw_path) ==
    IF raw_path = "" THEN Err("InvalidPath")
    ELSE IF is_absolute(raw_path) THEN Err("InvalidPath")
    ELSE IF \E i \in DOMAIN components(raw_path) : components(raw_path)[i] \in {".", "..", "/"}
    THEN Err("InvalidPath")
    ELSE IF Len(components(raw_path)) = 0 THEN Err("InvalidPath")
    ELSE Ok(normalize_relative_path(components(raw_path)))

RECURSIVE checksum_entries_from(_, _)
\* the loop of read_checksum_entries: Ok(path to digest) or the first error
checksum_entries_from(lines, entries) ==
    IF Len(lines) = 0 THEN Ok(entries)
    ELSE IF Trim(Head(lines)) = "" THEN checksum_entries_from(Tail(lines), entries)
    ELSE IF ~IsSome(split_once_spaces(Head(lines))) THEN Err("InvalidLine")
    ELSE IF ~looks_like_sha256_hex(Unwrap(split_once_spaces(Head(lines)))[1])
    THEN Err("InvalidDigest")
    ELSE IF ~IsOk(normalize_checksum_path(Unwrap(split_once_spaces(Head(lines)))[2]))
    THEN normalize_checksum_path(Unwrap(split_once_spaces(Head(lines)))[2])
    ELSE IF normalize_checksum_path(Unwrap(split_once_spaces(Head(lines)))[2]).ok
                \in DOMAIN entries
    THEN Err("DuplicatePath")
    ELSE checksum_entries_from(
             Tail(lines),
             entries
             @@ (normalize_checksum_path(Unwrap(split_once_spaces(Head(lines)))[2]).ok
                 :> ToAsciiLowercase(Unwrap(split_once_spaces(Head(lines)))[1])))

read_checksum_entries(d, bundle_dir) ==
    IF ~IsOk(checksum_entries_from(Lines(d.files[bundle_dir \o <<CHECKSUMS_FILENAME>>]), <<>>))
    THEN checksum_entries_from(Lines(d.files[bundle_dir \o <<CHECKSUMS_FILENAME>>]), <<>>)
    ELSE IF DOMAIN checksum_entries_from(
                       Lines(d.files[bundle_dir \o <<CHECKSUMS_FILENAME>>]), <<>>).ok = {}
    THEN Err("EmptyChecksums")
    ELSE checksum_entries_from(Lines(d.files[bundle_dir \o <<CHECKSUMS_FILENAME>>]), <<>>)

\* manifest.json and the regular files below the section directories, as relative paths
collect_payload_files(d, bundle_dir) ==
    {MANIFEST_FILENAME}
    \cup {normalize_relative_path(SubSeq(f, Len(bundle_dir) + 1, Len(f))) :
             f \in {g \in DOMAIN d.files :
                       \E i \in DOMAIN SECTION_MAPPINGS :
                           path_starts_with(g, bundle_dir \o <<SECTION_MAPPINGS[i].name>>)}}

ChecksumMismatch(path) == [err |-> "ChecksumMismatch", path |-> path]

\* the file bundle_dir.join(path) names
joined(bundle_dir, path) == bundle_dir \o Split(path, {"/"})

\* the check of one payload file: Ok or its error
payload_file_check(d, bundle_dir, path, expected) ==
    IF ~is_file(d, joined(bundle_dir, path)) THEN Err("Read")
    ELSE IF checksum_hex(d.files[joined(bundle_dir, path)]) # expected
    THEN ChecksumMismatch(path)
    ELSE Ok("verified")

\* the loop over the payload files in path order: the first error, or Ok
payload_files_check(d, bundle_dir, payload_files, entries) ==
    IF \A path \in payload_files : IsOk(payload_file_check(d, bundle_dir, path, entries[path]))
    THEN Ok("verified")
    ELSE payload_file_check(
             d, bundle_dir,
             CHOOSE path \in payload_files :
                 /\ ~IsOk(payload_file_check(d, bundle_dir, path, entries[path]))
                 /\ \A other \in payload_files :
                       StrLess(other, path) =>
                           IsOk(payload_file_check(d, bundle_dir, other, entries[other])),
             entries[CHOOSE path \in payload_files :
                 /\ ~IsOk(payload_file_check(d, bundle_dir, path, entries[path]))
                 /\ \A other \in payload_files :
                       StrLess(other, path) =>
                           IsOk(payload_file_check(d, bundle_dir, other, entries[other]))])

\* verify_checksums with the entries read
checked_entries(d, bundle_dir, entries, payload_files) ==
    IF MANIFEST_FILENAME \notin DOMAIN entries THEN Err("MissingManifestEntry")
    ELSE IF payload_files \ DOMAIN entries # {} THEN Err("MissingFromChecksums")
    ELSE IF DOMAIN entries \ payload_files # {} THEN Err("UnexpectedInChecksums")
    ELSE payload_files_check(d, bundle_dir, payload_files, entries)

read_entries_check(d, bundle_dir, read) ==
    IF ~IsOk(read) THEN read
    ELSE checked_entries(d, bundle_dir, read.ok, collect_payload_files(d, bundle_dir))

verify_checksums(d, bundle_dir) ==
    read_entries_check(d, bundle_dir, read_checksum_entries(d, bundle_dir))

verify_bundle(d, bundle_dir) ==
    IF ~ensure_bundle_root(d, bundle_dir) THEN Err("BundleRoot")
    ELSE IF IsSome(required_structure_error(d, bundle_dir))
    THEN Err(Unwrap(required_structure_error(d, bundle_dir)))
    ELSE verify_checksums(d, bundle_dir)


(***************************************************************************)
(* The migration commands on a disk: exports, changes made to a bundle     *)
(* from outside, and verifications. arg is the log of the operations, ret  *)
(* the result of the last command.                                         *)
(***************************************************************************)
MaxOps == 3
MaxWrites == 2

\* the disk with the directories of its files and further empty directories
DiskOf(files, empty_dirs) ==
    Disk(UNION {Ancestors(SubSeq(f, 1, Len(f) - 1)) : f \in DOMAIN files}
         \cup UNION {Ancestors(dir) : dir \in empty_dirs},
         files)

\* the fixtures of the export tests: sorted entries and a stale bundle, a file name
\* with a backslash, no mapped files, nested sections, a file in the place of a section
InitialDisks ==
    { DiskOf((<<"f", "s", "skills", "z-last.json">> :> "z")
             @@ (<<"f", "s", "skills", "a-first.json">> :> "a")
             @@ (<<"f", "s", "learnings", "m-mid.json">> :> "m")
             @@ (<<"f", "o", "runtime", "r1.json">> :> "r1")
             @@ (<<"f", "o", "events", "e1.json">> :> "e1")
             @@ (<<"f", "s", "unmapped", "ignored.txt">> :> "ignore")
             @@ (<<"f", "bundle", "skills", "stale.json">> :> "stale"), {}),
      DiskOf((<<"f", "s", "skills", "a\\b">> :> "seed"), {<<"f", "o">>}),
      DiskOf((<<"f", "s", "unmapped", "ignored.txt">> :> "ignore")
             @@ (<<"f", "o", "other", "ignored.txt">> :> "ignore"), {}),
      DiskOf((<<"f", "s", "skills", "a-b", "x.json">> :> "abc")
             @@ (<<"f", "s", "skills", "a", "x.json">> :> "seed")
             @@ (<<"f", "o", "meta", "m.json">> :> "m"), {<<"f", "o", "runtime", "empty">>}),
      DiskOf((<<"f", "s", "skills", "seed.json">> :> "seed")
             @@ (<<"f", "o", "runtime">> :> "r1"), {}) }

\* source_root and odin_dir
InputRoots == { <<<<"f", "s">>, <<"f", "o">>>>, <<<<"f", "s">>, <<"f", "missing">>>> }

\* a sibling of the roots (stale or new), the roots, inside a mapped section, an
\* ancestor of the roots, a directory of an input root outside the sections, a file
OutDirs ==
    { <<"f", "bundle">>, <<"f", "new">>, <<"f", "s">>, <<"f", "o">>,
      <<"f", "s", "skills", "bundle">>, <<"f">>, <<"f", "s", "unmapped">>,
      <<"f", "s", "unmapped", "ignored.txt">> }

InitBundle ==
    /\ disk \in InitialDisks
    /\ arg = <<>>
    /\ ret = NoRet
    /\ allowed = {}
    /\ require_approval_for_destructive = FALSE
    /\ IdleRuntime
    /\ IdleStagehand

BundleFrame ==
    UNCHANGED <<allowed, require_approval_for_destructive, executor, sink, ingress, call,
                stagehand, built_from>>

Last == arg[Len(arg)]

\* the last operation was an export that succeeded
Exported == Len(arg) > 0 /\ Last.op = "write_bundle" /\ IsOk(Last.result)

\* the regular files below a directory, relative to it
FilesBelow(d, dir) ==
    {SubSeq(f, Len(dir) + 1, Len(f)) : f \in {g \in DOMAIN d.files : path_starts_with(g, dir)}}

WriteBundle ==
    /\ Len(arg) < MaxOps
    /\ Len(arg) < MaxWrites
    /\ \A i \in DOMAIN arg : arg[i].op = "write_bundle" /\ IsOk(arg[i].result)
    /\ \E roots \in InputRoots, out_dir \in OutDirs :
          \E left \in {write_bundle(disk, roots[1], roots[2], out_dir)} :
              /\ disk' = left.disk
              /\ ret' = left.result
              /\ arg' = Append(arg, [op |-> "write_bundle", source_root |-> roots[1],
                                     odin_dir |-> roots[2], out_dir |-> out_dir,
                                     before |-> disk, result |-> left.result])
    /\ BundleFrame

\* somebody changes the content of a file of the bundle just written
TamperFile ==
    /\ Len(arg) < MaxOps
    /\ Exported
    /\ \E file \in FilesBelow(disk, Last.out_dir) \ {<<CHECKSUMS_FILENAME>>} :
          /\ disk' = fs_write(disk, Last.out_dir \o file, "tampered")
          /\ arg' = Append(arg, [op |-> "tamper", bundle_dir |-> Last.out_dir, file |-> file])
    /\ ret' = NoRet
    /\ BundleFrame

\* somebody adds a file to a section of the bundle just written
PlantFile ==
    /\ Len(arg) < MaxOps
    /\ Exported
    /\ disk' = fs_write(disk, Last.out_dir \o <<"skills", "planted.json">>, "stale")
    /\ arg' = Append(arg, [op |-> "plant", bundle_dir |-> Last.out_dir,
                           file |-> <<"skills", "planted.json">>])
    /\ ret' = NoRet
    /\ BundleFrame

\* somebody removes a file of the bundle just written
RemoveFile ==
    /\ Len(arg) < MaxOps
    /\ Exported
    /\ \E file \in FilesBelow(disk, Last.out_dir) \ {<<CHECKSUMS_FILENAME>>} :
          /\ disk' = Disk(disk.dirs,
                          [f \in DOMAIN disk.files \ {Last.out_dir \o file} |-> disk.files[f]])
          /\ arg' = Append(arg, [op |-> "remove", bundle_dir |-> Last.out_dir, file |-> file])
    /\ ret' = NoRet
    /\ BundleFrame

\* the digest and the path of a checksums line
DigestOf(line) == SubSeq(line, 1, 64)
ListedOf(line) == SubSeq(line, 67, Len(line))

\* the path with /. after its first name
WithDotSegment(path) ==
    IF FindFrom(path, {"/"}, 1) = 0 THEN path
    ELSE SubSeq(path, 1, FindFrom(path, {"/"}, 1)) \o "./"
         \o SubSeq(path, FindFrom(path, {"/"}, 1) + 1, Len(path))

\* what somebody may put in the place of a checksums line
LineVariants(line) ==
    [duplicate |-> <<line, line>>,
     absolute |-> <<DigestOf(line) \o "  /" \o ListedOf(line)>>,
     leading_dot |-> <<DigestOf(line) \o "  ./" \o ListedOf(line)>>,
     parent |-> <<DigestOf(line) \o "  skills/../" \o ListedOf(line)>>,
     inner_dot |-> <<DigestOf(line) \o "  " \o WithDotSegment(ListedOf(line))>>,
     short_digest |-> <<SubSeq(line, 2, Len(line))>>,
     no_digest |-> <<"g" \o SubSeq(line, 2, Len(line))>>,
     upper_digest |-> <<"A" \o SubSeq(line, 2, Len(line))>>,
     removed |-> <<>>,
     ghost |-> <<line, DigestOf(line) \o "  skills/ghost.json">>,
     blank |-> <<line, "">>]

RECURSIVE JoinLines(_)
JoinLines(lines) ==
    IF Len(lines) = 0 THEN "" ELSE Head(lines) \o "\n" \o JoinLines(Tail(lines))

\* somebody rewrites the first or the last line of checksums.sha256 of the bundle just
\* written
RewriteChecksums ==
    /\ Len(arg) < MaxOps
    /\ Exported
    /\ \E lines \in {Lines(disk.files[Last.out_dir \o <<CHECKSUMS_FILENAME>>])} :
          \E i \in {1, Len(lines)} : \E variant \in DOMAIN LineVariants(lines[i]) :
              /\ disk' = fs_write(disk, Last.out_dir \o <<CHECKSUMS_FILENAME>>,
                                  JoinLines(SubSeq(lines, 1, i - 1)
                                            \o LineVariants(lines[i])[variant]
                                            \o SubSeq(lines, i + 1, Len(lines))))
              /\ arg' = Append(arg, [op |-> "rewrite", bundle_dir |-> Last.out_dir,
                                     line |-> i, variant |-> variant])
    /\ ret' = NoRet
    /\ BundleFrame

\* the directories of the log, and the stale bundle of the fixture
VerifyDirs ==
    {<<"f", "bundle">>}
    \cup {arg[i].out_dir : i \in {j \in DOMAIN arg : arg[j].op = "write_bundle"}}

VerifyBundle ==
    /\ Len(arg) < MaxOps
    /\ \E bundle_dir \in VerifyDirs :
          \E result \in {verify_bundle(disk, bundle_dir)} :
              /\ ret' = result
              /\ arg' = Append(arg, [op |-> "verify_bundle", bundle_dir |-> bundle_dir,
                                     result |-> result])
    /\ UNCHANGED disk
    /\ BundleFrame

NextBundle ==
    \/ WriteBundle
    \/ TamperFile
    \/ PlantFile
    \/ RemoveFile
    \/ RewriteChecksums
    \/ VerifyBundle

SpecBundle == InitBundle /\ [][NextBundle]_vars

\* the last operation was the command
Ran(op) == Len(arg) > 0 /\ Last.op = op


(***************************************************************************)
(* Claims about migration bundles.                                         *)
(***************************************************************************)
\* the operation before the last
Previous == arg[Len(arg) - 1]

\* a verification of the directory an export just wrote
C23_VerifiesExport ==
    /\ Len(arg) >= 2
    /\ Last.op = "verify_bundle"
    /\ Previous.op = "write_bundle"
    /\ IsOk(Previous.result)
    /\ Previous.out_dir = Last.bundle_dir

\* a verification after one file of the export was changed
C23_VerifiesTampered ==
    /\ Len(arg) >= 3
    /\ Last.op = "verify_bundle"
    /\ Previous.op = "tamper"
    /\ Previous.bundle_dir = Last.bundle_dir
    /\ arg[Len(arg) - 2].op = "write_bundle"

\* C23: verify_bundle(out_dir) succeeds immediately after a successful
\* write_bundle(source_root, odin_dir, out_dir); after the content of exactly one file
\* listed in checksums.sha256 (a section file or manifest.json) was changed,
\* verify_bundle fails with a checksum mismatch that names the relative path of that file.
C23_RoundTrip ==
    /\ C23_VerifiesExport => ret = Ok("verified")
    /\ C23_VerifiesTampered => ret = ChecksumMismatch(to_string_lossy(Previous.file))

\* the round trip on exports whose file names hold no backslash
C23_WithoutBackslash ==
    (\A f \in DOMAIN disk.files : \A i \in DOMAIN f : FindFrom(f[i], {"\\"}, 1) = 0)
        => C23_RoundTrip


\* the directories and the files with their contents below a directory, relative to it
TreeOf(d, dir) ==
    [dirs |-> {SubSeq(q, Len(dir) + 1, Len(q)) : q \in {r \in d.dirs : path_starts_with(r, dir)}},
     files |-> [f \in FilesBelow(d, dir) |-> d.files[dir \o f]]]

\* two exports in a row that succeeded, over the same roots with the same contents
C24_TwoRuns ==
    /\ Len(arg) = 2
    /\ arg[1].op = "write_bundle" /\ IsOk(arg[1].result)
    /\ arg[2].op = "write_bundle" /\ IsOk(arg[2].result)
    /\ arg[1].source_root = arg[2].source_root
    /\ arg[1].odin_dir = arg[2].odin_dir
    /\ TreeOf(arg[1].before, arg[1].source_root) = TreeOf(arg[2].before, arg[2].source_root)
    /\ TreeOf(arg[1].before, arg[1].odin_dir) = TreeOf(arg[2].before, arg[2].odin_dir)

\* the lines of the checksums file the last export wrote
C24_Lines == Lines(disk.files[Last.out_dir \o <<CHECKSUMS_FILENAME>>])

\* the files of the mapped sections of the input roots, as the bundle names them
C24_Mapped ==
    UNION {{<<SECTION_MAPPINGS[i].name>> \o f :
               f \in FilesBelow(Last.before,
                                section_path(SECTION_MAPPINGS[i], Last.source_root,
                                             Last.odin_dir))} :
              i \in DOMAIN SECTION_MAPPINGS}

\* C24: two successful runs of write_bundle over the same source_root and odin_dir
\* contents, into any two output directories and whatever those held before, produce
\* identical file trees and byte-identical checksums.sha256; its lines are sorted by
\* relative path and list exactly the copied files plus manifest.json, never
\* checksums.sha256 itself or stale files.
C24_ExportDeterministic ==
    /\ C24_TwoRuns =>
          /\ TreeOf(arg[2].before, arg[1].out_dir) = TreeOf(disk, arg[2].out_dir)
          /\ arg[2].before.files[arg[1].out_dir \o <<CHECKSUMS_FILENAME>>]
                 = disk.files[arg[2].out_dir \o <<CHECKSUMS_FILENAME>>]
    /\ Exported =>
          /\ \A i \in DOMAIN C24_Lines : \A j \in DOMAIN C24_Lines :
                i < j => StrLess(ListedOf(C24_Lines[i]), ListedOf(C24_Lines[j]))
          /\ FilesBelow(disk, Last.out_dir) \ {<<CHECKSUMS_FILENAME>>}
                 = C24_Mapped \cup {<<MANIFEST_FILENAME>>}
          /\ {ListedOf(C24_Lines[i]) : i \in DOMAIN C24_Lines}
                 = {normalize_relative_path(f) : f \in C24_Mapped \cup {<<MANIFEST_FILENAME>>}}
          /\ Len(C24_Lines) = Cardinality(C24_Mapped) + 1

\* a second export into a directory that held a stale file, after one into a new one
C24_Witness ==
    /\ C24_TwoRuns
    /\ arg[1].out_dir = <<"f", "new">>
    /\ arg[2].out_dir = <<"f", "bundle">>
    /\ <<"f", "bundle", "skills", "stale.json">> \in DOMAIN arg[2].before.files
    /\ <<"f", "bundle", "skills", "stale.json">> \notin DOMAIN disk.files
    /\ Len(C24_Lines) = 6


\* the lines of the checksums file of the verified bundle that are not blank
C25_Lines ==
    SelectSeq(Lines(disk.files[Last.bundle_dir \o <<CHECKSUMS_FILENAME>>]),
              LAMBDA line : Trim(line) # "")

\* the paths the lines list, as written
C25_Listed == {Unwrap(split_once_spaces(C25_Lines[i]))[2] : i \in DOMAIN C25_Lines}

\* manifest.json and the regular files on disk below the section directories
C25_OnDisk ==
    {MANIFEST_FILENAME}
    \cup UNION {{to_string_lossy(<<SECTION_MAPPINGS[i].name>> \o f) :
                    f \in FilesBelow(disk, Last.bundle_dir \o <<SECTION_MAPPINGS[i].name>>)} :
                   i \in DOMAIN SECTION_MAPPINGS}

C25_Segments(path) == Range(Split(path, {"/"}))

\* C25: verify_bundle succeeds only if the set of paths listed in checksums.sha256
\* equals the set of regular files on disk under the eight section directories plus
\* manifest.json; a duplicate, absolute or . / .. -containing path, an invalid digest
\* and a missing manifest.json entry each make verification fail.
C25_VerifiedOnlyIfExact ==
    (Ran("verify_bundle") /\ IsOk(ret)) =>
        /\ \A i \in DOMAIN C25_Lines :
              /\ IsSome(split_once_spaces(C25_Lines[i]))
              /\ looks_like_sha256_hex(Unwrap(split_once_spaces(C25_Lines[i]))[1])
        /\ C25_Listed = C25_OnDisk
        /\ Cardinality(C25_Listed) = Len(C25_Lines)
        /\ \A path \in C25_Listed :
              /\ ~is_absolute(path)
              /\ "." \notin C25_Segments(path)
              /\ ".." \notin C25_Segments(path)
        /\ MANIFEST_FILENAME \in C25_Listed

\* the same on bundles whose checksums file was left alone or rewritten otherwise
C25_WithoutInnerDot ==
    (\A i \in DOMAIN arg : arg[i].op = "rewrite" => arg[i].variant # "inner_dot")
        => C25_VerifiedOnlyIfExact


\* the files an input root held before the last export, under their full paths
C29_InputFiles ==
    {f \in DOMAIN Last.before.files :
        path_starts_with(f, Last.source_root) \/ path_starts_with(f, Last.odin_dir)}

\* C29: write_bundle never deletes or modifies a file under source_root or odin_dir:
\* whatever out_dir is, and whether the export is rejected or proceeds, every file that
\* existed under the input roots before the call exists with identical content after it.
C29_InputsIntact ==
    Ran("write_bundle") =>
        \A f \in C29_InputFiles :
            f \in DOMAIN disk.files /\ disk.files[f] = Last.before.files[f]

\* the inputs survive every export whose output directory held no input file before
C29_OutsideInputs ==
    (Ran("write_bundle")
        /\ ~\E f \in C29_InputFiles : path_starts_with(f, Last.out_dir)) =>
        \A f \in C29_InputFiles :
            f \in DOMAIN disk.files /\ disk.files[f] = Last.before.files[f]


(***************************************************************************)
(* odin-core-runtime: ExternalProcessPluginRunner                          *)
(*                                                                         *)
(* arg holds the child processes spawned so far, call the dispatch_event   *)
(* call in progress with its position, ret what the last call returned.    *)
(***************************************************************************)
MaxChildren == 2

\* RuntimeError::Plugin(message), the message up to the text of the cause
PluginError(message) == [err |-> "Plugin", message |-> message]

\* Path::join of a directory and a relative path
Join(dir, name) == dir \o "/" \o name

plugins_root == "/plugins"

\* PluginManifest: the fields dispatch_event reads
RunnerManifest(name, command) ==
    [plugin |-> [name |-> name, entrypoint |-> [command |-> command]]]

\* the directories below plugins_root that hold an odin.plugin.yaml, with what
\* serde_yaml::from_str makes of the file
InstalledPlugins ==
    (Join(plugins_root, "example-safe-github")
        :> Ok(RunnerManifest("example.safe-github", "./run.sh")))
    @@ (Join(plugins_root, "watchdog") :> Ok(RunnerManifest("odin.watchdog", "bin/watchdog")))
    @@ (Join(plugins_root, "failing") :> Ok(RunnerManifest("failing", "/usr/bin/false")))
    @@ (Join(plugins_root, "chatty") :> Ok(RunnerManifest("chatty", "./chatty")))
    @@ (Join(plugins_root, "nobin") :> Ok(RunnerManifest("nobin", "missing-binary")))
    @@ (Join(plugins_root, "renamed") :> Ok(RunnerManifest("other.name", "./run.sh")))
    @@ (Join(plugins_root, "broken") :> Err("yaml"))

\* the programs the operating system can start: exit status, stdout and stderr of a run
Programs ==
    (Join(Join(plugins_root, "example-safe-github"), "./run.sh")
        :> [status |-> 0, stderr |-> "",
            stdout |-> "{\"action\":\"enqueue_task\",\"task_type\":\"watchdog.report\"}\r\n"
                       \o "\n  {\"action\":\"noop\"}\n"])
    @@ (Join(Join(plugins_root, "watchdog"), "bin/watchdog")
        :> [status |-> 0, stderr |-> "warming up\n", stdout |-> " \n"])
    @@ ("/usr/bin/false" :> [status |-> 1, stderr |-> "boom\nagain", stdout |-> ""])
    @@ (Join(Join(plugins_root, "chatty"), "./chatty")
        :> [status |-> 0, stderr |-> "", stdout |-> "{\"action\":\"noop\"}\nhello"])

resolve_plugin_dir(plugin_name) ==
    LET normalized == Replace(plugin_name, ".", "-")
        leaf == RSplitFirst(plugin_name, {"."})
        candidates == <<Join(plugins_root, plugin_name), Join(plugins_root, normalized),
                        Join(plugins_root, leaf)>>
        found == SelectSeq(candidates, LAMBDA candidate : candidate \in DOMAIN InstalledPlugins)
    IN  IF Len(found) > 0 THEN Ok(found[1])
        ELSE PluginError("plugin manifest not found")

resolve_command(plugin_dir, command) ==
    IF StartsWith(command, "/") THEN command
    ELSE IF StartsWith(command, "./") \/ Contains(command, "/") THEN Join(plugin_dir, command)
    ELSE command

load_manifest(plugin_dir) ==
    IF IsOk(InstalledPlugins[plugin_dir]) THEN InstalledPlugins[plugin_dir]
    ELSE PluginError("manifest parse failed")

\* an Option<String> field as serde_json writes it
json_option(option) == IF IsSome(option) THEN "\"" \o Unwrap(option) \o "\"" ELSE "null"

\* serde_json::to_string of an EventEnvelope whose payload is Value::Null
event_json(event) ==
    "{\"event_id\":\"" \o event.event_id \o "\",\"event_type\":\"" \o event.event_type
    \o "\",\"task_id\":" \o json_option(event.task_id)
    \o ",\"request_id\":" \o json_option(event.request_id)
    \o ",\"project\":" \o json_option(event.project) \o ",\"payload\":null}"

\* serde_json::from_str::<PluginDirective> on the lines the programs print
directive_from_str(line) ==
    IF line = "{\"action\":\"noop\"}" THEN Ok(Noop)
    ELSE IF line = "{\"action\":\"enqueue_task\",\"task_type\":\"watchdog.report\"}"
    THEN Ok(EnqueueTask("watchdog.report", None, None, {}))
    ELSE PluginError("invalid plugin directive output")

RECURSIVE parse_directives(_, _)
\* the loop over stdout.lines()
parse_directives(lines, directives) ==
    IF Len(lines) = 0 THEN Ok(directives)
    ELSE IF Trim(Head(lines)) = "" THEN parse_directives(Tail(lines), directives)
    ELSE IF ~IsOk(directive_from_str(Trim(Head(lines))))
    THEN directive_from_str(Trim(Head(lines)))
    ELSE parse_directives(Tail(lines),
                          Append(directives, directive_from_str(Trim(Head(lines))).ok))

or_noop(parsed) ==
    IF IsOk(parsed) /\ Len(parsed.ok) = 0 THEN Ok(<<Noop>>) ELSE parsed

\* dispatch_event from the Output of the child on
directives_of(output) ==
    IF output.status # 0
    THEN [PluginError("plugin process failed")
            EXCEPT !.message = @ \o " (exit=" \o ToString(output.status) \o "): "
                                 \o Replace(output.stderr, "\n", " ")]
    ELSE or_noop(parse_directives(Lines(output.stdout), <<>>))

\* Command::spawn: the child, or None when the program cannot be started
spawn(command) ==
    IF command \in DOMAIN Programs
    THEN Some([program |-> command, state |-> "running", stdin |-> ""])
    ELSE None

RunnerPlugins ==
    {"example.safe-github", "odin.watchdog", "failing", "chatty", "nobin", "renamed", "broken",
     "ghost"}

RunnerEvents ==
    {EventEnvelope("evt-1", "task.received", Some("task-1"), None, Some("alpha"), {}),
     EventEnvelope("evt-2", "task.received", None, None, None, {})}

InitRunner ==
    /\ arg = <<>>
    /\ ret = NoRet
    /\ allowed = {}
    /\ require_approval_for_destructive = FALSE
    /\ IdleRuntime
    /\ IdleStagehand
    /\ IdleDisk

RunnerFrame ==
    UNCHANGED <<allowed, require_approval_for_destructive, executor, sink, ingress,
                stagehand, built_from, disk>>

\* the position of the call in dispatch_event
At(pc) == call.op = "dispatch_event" /\ call.pc = pc

Frame(plugin, event, pc, child) ==
    [op |-> "dispatch_event", plugin |-> plugin, event |-> event, pc |-> pc, child |-> child]

Returned(result) ==
    /\ call' = [call EXCEPT !.pc = "returned"]
    /\ ret' = result

\* dispatch_event up to the spawn of the child
started(plugin, plugin_dir, manifest) ==
    IF ~IsOk(plugin_dir) THEN plugin_dir
    ELSE IF ~IsOk(manifest) THEN manifest
    ELSE IF manifest.ok.plugin.name # plugin THEN PluginError("plugin name mismatch")
    ELSE IF ~IsSome(spawn(resolve_command(plugin_dir.ok, manifest.ok.plugin.entrypoint.command)))
    THEN PluginError("failed to start plugin process")
    ELSE Ok(Unwrap(spawn(resolve_command(plugin_dir.ok,
                                         manifest.ok.plugin.entrypoint.command))))

start(plugin) ==
    started(plugin, resolve_plugin_dir(plugin),
            IF IsOk(resolve_plugin_dir(plugin)) THEN load_manifest(resolve_plugin_dir(plugin).ok)
            ELSE resolve_plugin_dir(plugin))

\* a call of dispatch_event, up to the spawn of the child or the error before it
Dispatch ==
    /\ call = NoCall \/ At("returned")
    /\ Len(arg) < MaxChildren
    /\ \E plugin \in RunnerPlugins, event \in RunnerEvents :
          \E child \in {start(plugin)} :
              IF IsOk(child)
              THEN /\ arg' = Append(arg, child.ok)
                   /\ call' = Frame(plugin, event, "write_event", Len(arg) + 1)
                   /\ ret' = NoRet
              ELSE /\ call' = Frame(plugin, event, "returned", 0)
                   /\ ret' = child
                   /\ arg' = arg
    /\ RunnerFrame

\* ChildStdin::write_all: the pipe takes the bytes unless the child has closed it
write_all(child, bytes) ==
    IF child.state = "running" THEN Ok([child EXCEPT !.stdin = @ \o bytes]) ELSE Err("BrokenPipe")

\* stdin.write_all(event_json.as_bytes())
WriteEvent ==
    /\ At("write_event")
    /\ \E written \in {write_all(arg[call.child], event_json(call.event))} :
          IF IsOk(written)
          THEN /\ arg' = [arg EXCEPT ![call.child] = written.ok]
               /\ call' = [call EXCEPT !.pc = "write_newline"]
               /\ ret' = ret
          ELSE /\ Returned(PluginError("failed to write event to plugin"))
               /\ arg' = arg
    /\ RunnerFrame

\* stdin.write_all(b"\n")
WriteNewline ==
    /\ At("write_newline")
    /\ \E written \in {write_all(arg[call.child], "\n")} :
          IF IsOk(written)
          THEN /\ arg' = [arg EXCEPT ![call.child] = written.ok]
               /\ call' = [call EXCEPT !.pc = "wait"]
               /\ ret' = ret
          ELSE /\ Returned(PluginError("failed to flush plugin event"))
               /\ arg' = arg
    /\ RunnerFrame

\* child.wait_with_output() and the rest of dispatch_event: the wait blocks until the
\* child has exited, then the child is reaped; the operating system may fail the wait
WaitWithOutput ==
    /\ At("wait")
    /\ arg[call.child].state = "exited"
    /\ arg' = [arg EXCEPT ![call.child].state = "waited"]
    /\ \E waited \in BOOLEAN :
          IF waited THEN Returned(directives_of(Programs[arg[call.child].program]))
          ELSE Returned(PluginError("plugin wait failed"))
    /\ RunnerFrame

\* a child process ends on its own, whether or not its parent still holds it
ChildExit ==
    /\ \E i \in DOMAIN arg :
          /\ arg[i].state = "running"
          /\ arg' = [arg EXCEPT ![i].state = "exited"]
    /\ UNCHANGED <<call, ret>>
    /\ RunnerFrame

NextRunner ==
    \/ Dispatch
    \/ WriteEvent
    \/ WriteNewline
    \/ WaitWithOutput
    \/ ChildExit

SpecRunner == InitRunner /\ [][NextRunner]_vars

(***************************************************************************)
(* Claims about the plugin runner.                                         *)
(***************************************************************************)
\* the call spawned a child and the child has not been waited on
C26_Unwaited == call.child # 0 /\ arg[call.child].state # "waited"

\* every failure the call reports is a RuntimeError::Plugin
C26_FailuresArePluginErrors ==
    At("returned") /\ ~IsOk(ret) => ret.err = "Plugin"

\* C26: dispatch_event never returns, with directives or with an error, while a child
\* process it spawned has not been waited on, a failure to write the event to the child's
\* stdin included, and the failures it reports are plugin-failure errors.
C26_WaitedBeforeReturn ==
    At("returned") => ~C26_Unwaited /\ (~IsOk(ret) => ret.err = "Plugin")

\* the child is waited on whenever the call returns after both writes went through
C26_WaitedAfterWrites ==
    At("returned") /\ call.child # 0 /\ EndsWith(arg[call.child].stdin, "\n")
        => arg[call.child].state = "waited"

=============================================================================
